---------------------------- MODULE Spec2Model ----------------------------
(***************************************************************************)
(* Trap dispatch, IRQ registry, keyboard decoder and descriptor-table      *)
(* installation of loliOS (student-distrib).                               *)
(*                                                                         *)
(* A C function is modelled by the list of statements it executes, in      *)
(* program order; a trap frame holds the statements still to run (todo)    *)
(* and the statements already run (log).  One action executes the          *)
(* statement at the head of the innermost frame.                           *)
(***************************************************************************)
EXTENDS Integers, Sequences, FiniteSets, TLC

VARIABLES
    frames,        \* stack of trap frames, innermost last
    ret,           \* <<f>> right after the dispatch of frame f returned, else <<>>
    halted,        \* loop() was entered: the processor spins forever
    pending,       \* signals pending for the executing process
    irq_handlers,  \* static irq_handler_t irq_handlers[16]
    irq_enabled,   \* lines unmasked on the interrupt controller
    in_service,    \* lines the controller holds in service (no EOI yet)
    last_op,       \* the registry call made right before the present moment
    reg_ops,       \* number of registry calls made so far
    modifiers,     \* static kbd_modifiers_t modifiers
    last_packet,   \* the packet decoded last (-1: none yet)
    mod_before,    \* value of modifiers before last_packet was decoded
    input,         \* the kbd_input_t returned for last_packet
    idt,           \* the descriptor table idt[NUM_VEC]
    desc,          \* idt_init's template descriptor
    init_i,        \* idt_init's loop variable i
    init_todo,     \* statements of idt_init still to run
    idtr,          \* TRUE once lidt made the table the active one
    video_mem,     \* the bytes term->video_mem points to
    cursor,        \* term->cursor (cursor_pos_t)
    input_buf,     \* term->input: buf[TERMINAL_BUF_SIZE] and count
    written,       \* what the step before wrote with terminal_write, if it did
    stray,         \* TRUE once a byte was written outside the video memory
    stream,        \* for the record: characters the buffer accepted, bytes reads returned
    rd,            \* the activation of terminal_read, if any
    int_flag,      \* the processor's interrupt-enable flag (EFLAGS.IF)
    sti_shadow,    \* sti was the last instruction: no interrupt before the next
    hlt_wait       \* the processor executed hlt and waits for an interrupt

dispatchVars == <<frames, ret, halted, pending, in_service>>
registryVars == <<irq_handlers, irq_enabled, last_op, reg_ops>>
kbdVars      == <<modifiers, last_packet, mod_before, input>>
initVars     == <<idt, desc, init_i, init_todo, idtr>>
termVars     == <<video_mem, cursor, input_buf, written, stray, stream>>
readVars     == <<rd, int_flag, sti_shadow, hlt_wait>>
vars         == <<frames, ret, halted, pending, in_service,
                  irq_handlers, irq_enabled, last_op, reg_ops,
                  modifiers, last_packet, mod_before, input,
                  idt, desc, init_i, init_todo, idtr,
                  video_mem, cursor, input_buf, written, stray, stream,
                  rd, int_flag, sti_shadow, hlt_wait>>

---------------------------------------------------------------------------
(* Bounds of the model *)

\* deepest nesting of traps explored
MaxDepth == 2

\* number of register/unregister calls explored
MaxRegOps == 1

---------------------------------------------------------------------------
(* Program constants.  idt.h, x86_desc.h, irq.h and keyboard.h are not
   among the sources; the vector numbers, selectors and keycodes they
   define are given the values of the PC platform the kernel runs on. *)

\* number of entries of exception_names[], index 0 being the divide error
NUM_EXC == 20
EXC_DE == 0
\* size of irq_handlers[]
NUM_IRQ == 16
NUM_VEC == 256
INT_IRQ0 == 32
INT_IRQ15 == 47
INT_SYSCALL == 128
KERNEL_CS == 16
USER_CS == 35

NULL == "NULL"
SIG_DIV_ZERO == "SIG_DIV_ZERO"
SIG_SEGFAULT == "SIG_SEGFAULT"

Vectors  == 0 .. (NUM_VEC - 1)
IrqVectors == INT_IRQ0 .. INT_IRQ15
Lines    == 0 .. (NUM_IRQ - 1)
CsValues == {KERNEL_CS, USER_CS}

\* Driver callbacks handed to the registry: the keyboard's handler, which
\* runs with interrupts disabled, and a callback that enables interrupts
\* while it runs.
CB_KEYBOARD == "handle_keyboard_irq"
CB_STI      == "callback_sti"
Callbacks   == {CB_KEYBOARD, CB_STI}

\* Values of eax on entry (a syscall number) and syscall results.
EaxValues      == {1, 2}
SyscallResults == {0, -1}

---------------------------------------------------------------------------
(* Trap frames *)

NoOp == [op |-> "none", line |-> -1, cb |-> NULL]

NewFrame(v, cs, eax) ==
    [regs    |-> [int_num |-> v, cs |-> cs, eax |-> eax],
     entry   |-> [int_num |-> v, cs |-> cs, eax |-> eax],
     todo    |-> <<"idt_handle_interrupt">>,
     log     |-> <<>>,
     sigs    |-> <<>>,
     cbs     |-> <<>>,
     eois    |-> <<>>,
     line    |-> -1,
     handler |-> NULL,
     prev_op |-> last_op]

Depth == Len(frames)
Top   == frames[Depth]
Stmt  == Top.todo[1]
Running == ~halted /\ Depth > 0 /\ Top.todo # <<>>

\* The innermost frame after its head statement ran and was replaced by
\* the statements of `body'.
Step(f, body) ==
    [f EXCEPT !.todo = body \o Tail(f.todo), !.log = Append(f.log, f.todo[1])]

SetTop(f) == [frames EXCEPT ![Depth] = f]

IsExc(v)     == v < NUM_EXC
IsIrq(v)     == v >= INT_IRQ0 /\ v <= INT_IRQ15

---------------------------------------------------------------------------
(* idt.c: the dispatcher *)

\* idt_handle_interrupt: the four-way classification, then the check for
\* pending signals
idt_handle_interrupt_irq_off_by_one(regs) ==
    (IF regs.int_num < NUM_EXC THEN <<"handle_exception">>
     ELSE IF regs.int_num >= INT_IRQ0 /\ regs.int_num <= INT_IRQ15 + 1
          THEN <<"handle_irq">>
     ELSE IF regs.int_num = INT_SYSCALL THEN <<"handle_syscall">>
     ELSE <<"debugf_unknown">>) \o <<"signal_check">>

idt_handle_interrupt(regs) ==
    (IF regs.int_num < NUM_EXC THEN <<"handle_exception">>
     ELSE IF regs.int_num >= INT_IRQ0 /\ regs.int_num <= INT_IRQ15
          THEN <<"handle_irq">>
     ELSE IF regs.int_num = INT_SYSCALL THEN <<"handle_syscall">>
     ELSE <<"debugf_unknown">>) \o <<"signal_check">>

\* if (regs->cs == USER_CS) signal_handle_all(regs);
signal_check_always(regs) == <<"signal_handle_all">>

signal_check(regs) ==
    IF regs.cs = USER_CS THEN <<"signal_handle_all">> ELSE <<>>

\* handle_exception: a user-mode exception becomes a signal and returns, a
\* kernel-mode exception dumps the registers and never returns
handle_exception_no_loop(regs) ==
    IF regs.cs = USER_CS THEN <<"handle_user_exception">>
    ELSE <<"dump_registers">>

handle_exception(regs) ==
    IF regs.cs = USER_CS THEN <<"handle_user_exception">>
    ELSE <<"dump_registers", "loop">>

\* handle_user_exception: the signal raised for an exception number
handle_user_exception_all_segv(int_num) == SIG_SEGFAULT

handle_user_exception(int_num) ==
    IF int_num = EXC_DE THEN SIG_DIV_ZERO ELSE SIG_SEGFAULT

\* handle_irq of idt.c: uint32_t irq_num = regs->int_num - INT_IRQ0
irq_num(regs) == regs.int_num - INT_IRQ0

\* handle_irq of the registry: run the callback if one is registered, then
\* send end-of-interrupt
handle_irq_eoi_first(handler) ==
    IF handler # NULL THEN <<"send_eoi", "callback">> ELSE <<"send_eoi">>

handle_irq_callback_twice(handler) ==
    IF handler # NULL THEN <<"callback", "callback", "send_eoi">>
    ELSE <<"send_eoi">>

handle_irq(handler) ==
    IF handler # NULL THEN <<"callback", "send_eoi">> ELSE <<"send_eoi">>

---------------------------------------------------------------------------
(* Traps *)

\* Interrupts are disabled while a handler runs (every gate is an interrupt
\* gate), except where the code enables them: a syscall blocked in
\* sti; hlt, and a callback that enables interrupts itself.
NestedAllowed(v) ==
    /\ Depth > 0
    /\ Top.todo # <<>>
    /\ \/ Stmt = "syscall_handle" /\ (IsExc(v) \/ IsIrq(v))
       \/ Stmt = "callback_running" /\ Top.handler = CB_STI /\ IsIrq(v)

\* The controller raises a line only when the line is not in service.
LineFree(v) == IsIrq(v) => (v - INT_IRQ0) \notin in_service

Trap(v, cs, eax) ==
    /\ ~halted
    /\ Depth < MaxDepth
    /\ LineFree(v)
    /\ IF Depth = 0 THEN TRUE ELSE cs = KERNEL_CS /\ NestedAllowed(v)
    /\ frames' = Append(frames, NewFrame(v, cs, eax))
    /\ in_service' = IF IsIrq(v) THEN in_service \cup {v - INT_IRQ0}
                     ELSE in_service
    /\ ret' = <<>>
    /\ last_op' = NoOp
    /\ UNCHANGED <<halted, pending, irq_handlers, irq_enabled, reg_ops>>
    /\ UNCHANGED <<kbdVars, initVars, termVars, readVars>>

\* What every statement leaves alone unless it says otherwise.
Frame(f) ==
    /\ frames' = SetTop(f)
    /\ ret' = <<>>
    /\ UNCHANGED <<registryVars, kbdVars, initVars, termVars, readVars>>

ExecDispatch ==
    /\ Running /\ Stmt = "idt_handle_interrupt"
    /\ Frame(Step(Top, idt_handle_interrupt(Top.regs)))
    /\ UNCHANGED <<halted, pending, in_service>>

ExecHandleException ==
    /\ Running /\ Stmt = "handle_exception"
    /\ Frame(Step(Top, handle_exception(Top.regs)))
    /\ UNCHANGED <<halted, pending, in_service>>

\* signal_raise(pcb->pid, sig)
ExecUserException ==
    /\ Running /\ Stmt = "handle_user_exception"
    /\ LET sig == handle_user_exception(Top.regs.int_num)
       IN  /\ Frame([Step(Top, <<>>) EXCEPT !.sigs = Append(@, sig)])
           /\ pending' = pending \cup {sig}
    /\ UNCHANGED <<halted, in_service>>

ExecDumpRegisters ==
    /\ Running /\ Stmt = "dump_registers"
    /\ Frame(Step(Top, <<>>))
    /\ UNCHANGED <<halted, pending, in_service>>

\* loop() never returns: the statement stays at the head for ever
ExecLoop ==
    /\ Running /\ Stmt = "loop"
    /\ halted' = TRUE
    /\ Frame([Top EXCEPT !.log = Append(@, "loop")])
    /\ UNCHANGED <<pending, in_service>>

ExecHandleIrq ==
    /\ Running /\ Stmt = "handle_irq"
    /\ LET n == irq_num(Top.regs)
           h == IF n \in Lines THEN irq_handlers[n] ELSE NULL
       IN  Frame([Step(Top, handle_irq(h)) EXCEPT !.line = n, !.handler = h])
    /\ UNCHANGED <<halted, pending, in_service>>

\* handler.callback()
ExecCallback ==
    /\ Running /\ Stmt = "callback"
    /\ Frame([Step(Top, <<"callback_running">>)
                EXCEPT !.cbs = Append(@, Top.handler)])
    /\ UNCHANGED <<halted, pending, in_service>>

ExecCallbackReturn ==
    /\ Running /\ Stmt = "callback_running"
    /\ Frame(Step(Top, <<>>))
    /\ UNCHANGED <<halted, pending, in_service>>

\* send_eoi(irq_num)
ExecSendEoi ==
    /\ Running /\ Stmt = "send_eoi"
    /\ Frame([Step(Top, <<>>) EXCEPT !.eois = Append(@, Top.line)])
    /\ in_service' = in_service \ {Top.line}
    /\ UNCHANGED <<halted, pending>>

ExecHandleSyscall ==
    /\ Running /\ Stmt = "handle_syscall"
    /\ Frame(Step(Top, <<"syscall_handle">>))
    /\ UNCHANGED <<halted, pending, in_service>>

\* handle_syscall storing the result in the saved cs
ExecSyscallReturn_result_in_cs(r) ==
    /\ Running /\ Stmt = "syscall_handle"
    /\ Frame([Step(Top, <<>>) EXCEPT !.regs.cs = r])
    /\ UNCHANGED <<halted, pending, in_service>>

\* regs->eax = syscall_handle(...)
ExecSyscallReturn(r) ==
    /\ Running /\ Stmt = "syscall_handle"
    /\ Frame([Step(Top, <<>>) EXCEPT !.regs.eax = r])
    /\ UNCHANGED <<halted, pending, in_service>>

ExecUnknown ==
    /\ Running /\ Stmt = "debugf_unknown"
    /\ Frame(Step(Top, <<>>))
    /\ UNCHANGED <<halted, pending, in_service>>

ExecSignalCheck ==
    /\ Running /\ Stmt = "signal_check"
    /\ Frame(Step(Top, signal_check(Top.regs)))
    /\ UNCHANGED <<halted, pending, in_service>>

\* signal_handle_all(regs): every pending signal is handled
ExecSignalHandleAll ==
    /\ Running /\ Stmt = "signal_handle_all"
    /\ Frame(Step(Top, <<>>))
    /\ pending' = {}
    /\ UNCHANGED <<halted, in_service>>

\* idt_handle_interrupt returns to the thunk, which resumes the interrupted
\* code
Return ==
    /\ ~halted /\ Depth > 0 /\ Top.todo = <<>>
    /\ frames' = SubSeq(frames, 1, Depth - 1)
    /\ ret' = <<Top>>
    /\ UNCHANGED <<halted, pending, in_service>>
    /\ UNCHANGED <<registryVars, kbdVars, initVars, termVars, readVars>>

\* The statements every dispatch runs
ExecCommon ==
    \/ ExecDispatch
    \/ ExecSignalCheck
    \/ Return

\* The statements of the IRQ path
ExecIrqPath ==
    \/ ExecHandleIrq
    \/ ExecCallback
    \/ ExecCallbackReturn
    \/ ExecSendEoi

\* The statements of the exception, syscall and unknown-vector paths, and
\* the delivery of signals
ExecOtherPaths ==
    \/ ExecHandleException
    \/ ExecUserException
    \/ ExecDumpRegisters
    \/ ExecLoop
    \/ ExecHandleSyscall
    \/ \E r \in SyscallResults : ExecSyscallReturn(r)
    \/ ExecUnknown
    \/ ExecSignalHandleAll

---------------------------------------------------------------------------
(* The IRQ registry *)

\* register_irq_handler(irq_num, callback)
\* register_irq_handler that keeps a callback already registered
register_irq_handler_keeps_first(line, cb) ==
    /\ ~halted /\ Depth = 0
    /\ reg_ops < MaxRegOps
    /\ line \in Lines
    /\ irq_handlers' = [irq_handlers EXCEPT ![line] = IF @ = NULL THEN cb ELSE @]
    /\ irq_enabled' = irq_enabled \cup {line}
    /\ last_op' = [op |-> "register", line |-> line, cb |-> cb]
    /\ reg_ops' = reg_ops + 1
    /\ ret' = <<>>
    /\ UNCHANGED <<frames, halted, pending, in_service>>
    /\ UNCHANGED <<kbdVars, initVars, termVars, readVars>>

register_irq_handler(line, cb) ==
    /\ ~halted /\ Depth = 0
    /\ reg_ops < MaxRegOps
    /\ line \in Lines
    /\ irq_handlers' = [irq_handlers EXCEPT ![line] = cb]
    /\ irq_enabled' = irq_enabled \cup {line}
    /\ last_op' = [op |-> "register", line |-> line, cb |-> cb]
    /\ reg_ops' = reg_ops + 1
    /\ ret' = <<>>
    /\ UNCHANGED <<frames, halted, pending, in_service>>
    /\ UNCHANGED <<kbdVars, initVars, termVars, readVars>>

\* unregister_irq_handler(irq_num)
unregister_irq_handler_no_clear(line) ==
    /\ ~halted /\ Depth = 0
    /\ reg_ops < MaxRegOps
    /\ line \in Lines
    /\ irq_enabled' = irq_enabled \ {line}
    /\ irq_handlers' = irq_handlers
    /\ last_op' = [op |-> "unregister", line |-> line, cb |-> NULL]
    /\ reg_ops' = reg_ops + 1
    /\ ret' = <<>>
    /\ UNCHANGED <<frames, halted, pending, in_service>>
    /\ UNCHANGED <<kbdVars, initVars, termVars, readVars>>

unregister_irq_handler(line) ==
    /\ ~halted /\ Depth = 0
    /\ reg_ops < MaxRegOps
    /\ line \in Lines
    /\ irq_enabled' = irq_enabled \ {line}
    /\ irq_handlers' = [irq_handlers EXCEPT ![line] = NULL]
    /\ last_op' = [op |-> "unregister", line |-> line, cb |-> NULL]
    /\ reg_ops' = reg_ops + 1
    /\ ret' = <<>>
    /\ UNCHANGED <<frames, halted, pending, in_service>>
    /\ UNCHANGED <<kbdVars, initVars, termVars, readVars>>

---------------------------------------------------------------------------
(* idt.c: idt_init *)

\* Entry points written by WRITE_IDT_ENTRY(EXC_DE .. EXC_XF, ...), in
\* vector order
exc_entry_points ==
    <<"idt_handle_exc_de", "idt_handle_exc_db", "idt_handle_exc_ni",
      "idt_handle_exc_bp", "idt_handle_exc_of", "idt_handle_exc_br",
      "idt_handle_exc_ud", "idt_handle_exc_nm", "idt_handle_exc_df",
      "idt_handle_exc_co", "idt_handle_exc_ts", "idt_handle_exc_np",
      "idt_handle_exc_ss", "idt_handle_exc_gp", "idt_handle_exc_pf",
      "idt_handle_exc_re", "idt_handle_exc_mf", "idt_handle_exc_ac",
      "idt_handle_exc_mc", "idt_handle_exc_xf">>

\* Entry points written by WRITE_IDT_ENTRY(INT_IRQ0 .. INT_IRQ15, ...)
irq_entry_points ==
    <<"idt_handle_int_irq0", "idt_handle_int_irq1", "idt_handle_int_irq2",
      "idt_handle_int_irq3", "idt_handle_int_irq4", "idt_handle_int_irq5",
      "idt_handle_int_irq6", "idt_handle_int_irq7", "idt_handle_int_irq8",
      "idt_handle_int_irq9", "idt_handle_int_irq10", "idt_handle_int_irq11",
      "idt_handle_int_irq12", "idt_handle_int_irq13", "idt_handle_int_irq14",
      "idt_handle_int_irq15">>

UNKNOWN_ENTRY == "idt_handle_int_unknown"
SYSCALL_ENTRY == "idt_handle_int_syscall"

\* A descriptor of the table before idt_init wrote it.
EmptyGate ==
    [present |-> 0, dpl |-> 0, size |-> 0, reserved3 |-> 0,
     seg_selector |-> 0, offset |-> NULL]

\* The statements of idt_init, in program order.
InitStmt(op) == [op |-> op, vec |-> -1, name |-> NULL]
WriteIdtEntry(v, name) == [op |-> "WRITE_IDT_ENTRY", vec |-> v, name |-> name]

ExcWrites == [k \in 1 .. NUM_EXC |-> WriteIdtEntry(k - 1, exc_entry_points[k])]
IrqWrites ==
    [k \in 1 .. NUM_IRQ |-> WriteIdtEntry(INT_IRQ0 + k - 1, irq_entry_points[k])]

idt_init_no_syscall_dpl ==
    <<InitStmt("template"), InitStmt("lidt"),
      InitStmt("exc_setup"), InitStmt("exc_loop")>>
    \o ExcWrites
    \o <<InitStmt("int_setup"), InitStmt("int_loop")>>
    \o IrqWrites
    \o <<WriteIdtEntry(INT_SYSCALL, SYSCALL_ENTRY)>>

idt_init ==
    <<InitStmt("template"), InitStmt("lidt"),
      InitStmt("exc_setup"), InitStmt("exc_loop")>>
    \o ExcWrites
    \o <<InitStmt("int_setup"), InitStmt("int_loop")>>
    \o IrqWrites
    \o <<InitStmt("syscall_dpl"), WriteIdtEntry(INT_SYSCALL, SYSCALL_ENTRY)>>

InitRunning(op) == init_todo # <<>> /\ init_todo[1].op = op
InitFrame == UNCHANGED <<dispatchVars, registryVars, kbdVars, termVars, readVars>>

\* desc.present = 1; desc.dpl = 0; ... desc.offset_31_16 = 0;
InitTemplate ==
    /\ InitRunning("template")
    /\ desc' = [present |-> 1, dpl |-> 0, size |-> 1, reserved3 |-> 1,
                seg_selector |-> KERNEL_CS, offset |-> NULL]
    /\ init_todo' = Tail(init_todo)
    /\ UNCHANGED <<idt, init_i, idtr>>
    /\ InitFrame

\* lidt(idt_desc_ptr);
InitLidt ==
    /\ InitRunning("lidt")
    /\ idtr' = TRUE
    /\ init_todo' = Tail(init_todo)
    /\ UNCHANGED <<idt, desc, init_i>>
    /\ InitFrame

\* desc.dpl = 0; desc.reserved3 = 0; and the loop's i = 0
InitExcSetup ==
    /\ InitRunning("exc_setup")
    /\ desc' = [desc EXCEPT !.dpl = 0, !.reserved3 = 0]
    /\ init_i' = 0
    /\ init_todo' = Tail(init_todo)
    /\ UNCHANGED <<idt, idtr>>
    /\ InitFrame

\* for (i = 0; i < NUM_EXC; ++i) idt[i] = desc;
InitExcLoop ==
    /\ InitRunning("exc_loop")
    /\ IF init_i < NUM_EXC
       THEN /\ idt' = [idt EXCEPT ![init_i] = desc]
            /\ init_i' = init_i + 1
            /\ UNCHANGED init_todo
       ELSE /\ init_todo' = Tail(init_todo)
            /\ UNCHANGED <<idt, init_i>>
    /\ UNCHANGED <<desc, idtr>>
    /\ InitFrame

\* WRITE_IDT_ENTRY(i, name): SET_IDT_ENTRY writes the offset of idt[i]
InitWriteIdtEntry ==
    /\ InitRunning("WRITE_IDT_ENTRY")
    /\ idt' = [idt EXCEPT ![init_todo[1].vec].offset = init_todo[1].name]
    /\ init_todo' = Tail(init_todo)
    /\ UNCHANGED <<desc, init_i, idtr>>
    /\ InitFrame

\* desc.dpl = 0; desc.reserved3 = 0;
InitIntSetup ==
    /\ InitRunning("int_setup")
    /\ desc' = [desc EXCEPT !.dpl = 0, !.reserved3 = 0]
    /\ init_todo' = Tail(init_todo)
    /\ UNCHANGED <<idt, init_i, idtr>>
    /\ InitFrame

\* for (; i < NUM_VEC; ++i) { idt[i] = desc; WRITE_IDT_ENTRY(i, unknown); }
InitIntLoop ==
    /\ InitRunning("int_loop")
    /\ IF init_i < NUM_VEC
       THEN /\ idt' = [idt EXCEPT ![init_i] = [desc EXCEPT !.offset = UNKNOWN_ENTRY]]
            /\ init_i' = init_i + 1
            /\ UNCHANGED init_todo
       ELSE /\ init_todo' = Tail(init_todo)
            /\ UNCHANGED <<idt, init_i>>
    /\ UNCHANGED <<desc, idtr>>
    /\ InitFrame

\* idt[INT_SYSCALL].dpl = 3;
InitSyscallDpl ==
    /\ InitRunning("syscall_dpl")
    /\ idt' = [idt EXCEPT ![INT_SYSCALL].dpl = 3]
    /\ init_todo' = Tail(init_todo)
    /\ UNCHANGED <<desc, init_i, idtr>>
    /\ InitFrame

---------------------------------------------------------------------------
(* keyboard.c: the scancode decoder.  Characters are their ASCII codes; the
   modifier bitmask is the set of its bits. *)

\* number of entries of each row of keycode_map
NUM_KEYS == 58

keycode_map ==
    << \* Neutral
       <<0, 0, 49, 50, 51, 52, 53, 54, 55, 56, 57, 48, 45, 61,
         8, 9, 113, 119, 101, 114, 116, 121, 117, 105, 111, 112, 91, 93,
         10, 0, 97, 115, 100, 102, 103, 104, 106, 107, 108, 59, 39, 96,
         0, 92, 122, 120, 99, 118, 98, 110, 109, 44, 46, 47, 0, 42,
         0, 32>>,
       \* Shift
       <<0, 0, 33, 64, 35, 36, 37, 94, 38, 42, 40, 41, 95, 43,
         8, 9, 81, 87, 69, 82, 84, 89, 85, 73, 79, 80, 123, 125,
         10, 0, 65, 83, 68, 70, 71, 72, 74, 75, 76, 58, 34, 126,
         0, 124, 90, 88, 67, 86, 66, 78, 77, 60, 62, 63, 0, 42,
         0, 32>>,
       \* Caps
       <<0, 0, 49, 50, 51, 52, 53, 54, 55, 56, 57, 48, 45, 61,
         8, 9, 81, 87, 69, 82, 84, 89, 85, 73, 79, 80, 91, 93,
         10, 0, 65, 83, 68, 70, 71, 72, 74, 75, 76, 59, 39, 96,
         0, 92, 90, 88, 67, 86, 66, 78, 77, 44, 46, 47, 0, 42,
         0, 32>>,
       \* Shift and caps
       <<0, 0, 33, 64, 35, 36, 37, 94, 38, 42, 40, 41, 95, 43,
         8, 9, 113, 119, 101, 114, 116, 121, 117, 105, 111, 112, 123, 125,
         10, 0, 97, 115, 100, 102, 103, 104, 106, 107, 108, 58, 34, 126,
         0, 124, 122, 120, 99, 118, 98, 110, 109, 60, 62, 63, 0, 42,
         0, 32>> >>

\* keycode_map[row][keycode], rows and keycodes counted from 0 as in C
KeycodeMap(row, keycode) == keycode_map[row + 1][keycode + 1]

\* Keycodes of the modifier keys and of L
KC_LCTRL == 29
KC_RCTRL == 97
KC_LSHIFT == 42
KC_RSHIFT == 54
KC_LALT == 56
KC_RALT == 100
KC_CAPS_LOCK == 58
KC_L == 38

\* Modifier masks
KMOD_NONE   == {}
KMOD_LCTRL  == {"LCTRL"}
KMOD_RCTRL  == {"RCTRL"}
KMOD_LSHIFT == {"LSHIFT"}
KMOD_RSHIFT == {"RSHIFT"}
KMOD_LALT   == {"LALT"}
KMOD_RALT   == {"RALT"}
KMOD_CAPS   == {"CAPS"}
KMOD_CTRL   == KMOD_LCTRL \cup KMOD_RCTRL
KMOD_SHIFT  == KMOD_LSHIFT \cup KMOD_RSHIFT
KMOD_ALT    == KMOD_LALT \cup KMOD_RALT

KTYP_NONE == "KTYP_NONE"
KTYP_CHAR == "KTYP_CHAR"
KTYP_CTRL == "KTYP_CTRL"
KCTL_NONE  == 0
KCTL_CLEAR == 1
KCTL_TERM1 == 2
KCTL_TERM2 == 3
KCTL_TERM3 == 4

\* kbd_input_t with type = KTYP_NONE; its value is never read
NoInput == [type |-> KTYP_NONE, value |-> 0]

\* set_modifier_bit(bit, mask) applied to the modifiers `mods'
set_modifier_bit_never_clears(mods, bit, mask) == mods \cup mask

set_modifier_bit(mods, bit, mask) ==
    IF bit # 0 THEN mods \cup mask ELSE mods \ mask

\* toggle_modifier_bit that only ever sets the bit
toggle_modifier_bit_sets(mods, mask) == mods \cup mask

\* toggle_modifier_bit(mask): modifiers ^= mask
toggle_modifier_bit(mods, mask) == (mods \ mask) \cup (mask \ mods)

keycode_to_modifier(keycode) ==
    CASE keycode = KC_LCTRL     -> KMOD_LCTRL
      [] keycode = KC_RCTRL     -> KMOD_RCTRL
      [] keycode = KC_LSHIFT    -> KMOD_LSHIFT
      [] keycode = KC_RSHIFT    -> KMOD_RSHIFT
      [] keycode = KC_LALT      -> KMOD_LALT
      [] keycode = KC_RALT      -> KMOD_RALT
      [] keycode = KC_CAPS_LOCK -> KMOD_CAPS
      [] OTHER                  -> KMOD_NONE

\* keycode_to_ctrl mapping every key to the clear-screen control
keycode_to_ctrl_all_clear(keycode) == KCTL_CLEAR

keycode_to_ctrl(keycode) ==
    IF keycode = KC_L THEN KCTL_CLEAR ELSE KCTL_NONE

\* get_modifiers: left and right variants consolidated
\* get_modifiers consolidating a pair only when its left key is held
get_modifiers_left_only(mods) ==
    LET m1 == IF mods \cap KMOD_LCTRL # {} THEN mods \cup KMOD_CTRL ELSE mods
        m2 == IF m1 \cap KMOD_LSHIFT # {} THEN m1 \cup KMOD_SHIFT ELSE m1
        m3 == IF m2 \cap KMOD_LALT # {} THEN m2 \cup KMOD_ALT ELSE m2
    IN  m3

get_modifiers(mods) ==
    LET m1 == IF mods \cap KMOD_CTRL # {} THEN mods \cup KMOD_CTRL ELSE mods
        m2 == IF m1 \cap KMOD_SHIFT # {} THEN m1 \cup KMOD_SHIFT ELSE m1
        m3 == IF m2 \cap KMOD_ALT # {} THEN m2 \cup KMOD_ALT ELSE m2
    IN  m3

keycode_to_input_caps_ignores_shift(mods, keycode) ==
    IF keycode >= NUM_KEYS THEN NoInput
    ELSE LET m == get_modifiers(mods)
         IN  CASE m = KMOD_NONE ->
                    [type |-> KTYP_CHAR, value |-> KeycodeMap(0, keycode)]
               [] m = KMOD_SHIFT ->
                    [type |-> KTYP_CHAR, value |-> KeycodeMap(1, keycode)]
               [] m = KMOD_CAPS ->
                    [type |-> KTYP_CHAR, value |-> KeycodeMap(2, keycode)]
               [] m = KMOD_CAPS \cup KMOD_SHIFT ->
                    [type |-> KTYP_CHAR, value |-> KeycodeMap(2, keycode)]
               [] m = KMOD_CTRL ->
                    [type |-> KTYP_CTRL, value |-> keycode_to_ctrl(keycode)]
               [] m = KMOD_CAPS \cup KMOD_CTRL ->
                    [type |-> KTYP_CTRL, value |-> keycode_to_ctrl(keycode)]
               [] OTHER -> NoInput

keycode_to_input(mods, keycode) ==
    IF keycode >= NUM_KEYS THEN NoInput
    ELSE LET m == get_modifiers(mods)
         IN  CASE m = KMOD_NONE ->
                    [type |-> KTYP_CHAR, value |-> KeycodeMap(0, keycode)]
               [] m = KMOD_SHIFT ->
                    [type |-> KTYP_CHAR, value |-> KeycodeMap(1, keycode)]
               [] m = KMOD_CAPS ->
                    [type |-> KTYP_CHAR, value |-> KeycodeMap(2, keycode)]
               [] m = KMOD_CAPS \cup KMOD_SHIFT ->
                    [type |-> KTYP_CHAR, value |-> KeycodeMap(3, keycode)]
               [] m = KMOD_CTRL ->
                    [type |-> KTYP_CTRL, value |-> keycode_to_ctrl(keycode)]
               [] m = KMOD_CAPS \cup KMOD_CTRL ->
                    [type |-> KTYP_CTRL, value |-> keycode_to_ctrl(keycode)]
               [] OTHER -> NoInput

\* process_packet(packet) with modifiers = mods: the modifiers afterwards
\* and the input returned
\* process_packet decoding key releases like presses
process_packet_release_decodes(mods, packet) ==
    LET status  == IF packet >= 128 THEN 0 ELSE 1
        keycode == packet % 128
        mod     == keycode_to_modifier(keycode)
    IN  IF mod # KMOD_NONE
        THEN IF mod = KMOD_CAPS
             THEN IF status = 1
                  THEN [mods |-> toggle_modifier_bit(mods, mod), input |-> NoInput]
                  ELSE [mods |-> mods, input |-> NoInput]
             ELSE [mods |-> set_modifier_bit(mods, status, mod), input |-> NoInput]
        ELSE [mods |-> mods, input |-> keycode_to_input(mods, keycode)]

process_packet(mods, packet) ==
    LET status  == IF packet >= 128 THEN 0 ELSE 1
        keycode == packet % 128
        mod     == keycode_to_modifier(keycode)
    IN  IF mod # KMOD_NONE
        THEN IF mod = KMOD_CAPS
             THEN IF status = 1
                  THEN [mods |-> toggle_modifier_bit(mods, mod), input |-> NoInput]
                  ELSE [mods |-> mods, input |-> NoInput]
             ELSE [mods |-> set_modifier_bit(mods, status, mod), input |-> NoInput]
        ELSE IF status = 1
             THEN [mods |-> mods, input |-> keycode_to_input(mods, keycode)]
             ELSE [mods |-> mods, input |-> NoInput]

(* The terminal: screen, cursor and input buffer (terminal.c).

   The screen is NUM_ROWS x NUM_COLS cells of two bytes (character,
   attribute); terminal.h gives 25 x 80 and the input buffer's size comes
   from a header that is not among the sources.  The model explores a
   screen and a buffer of the same shape scaled down to the sizes below,
   which are bounds of the exploration. *)

NUM_COLS == 2
NUM_ROWS == 2
TERMINAL_BUF_SIZE == 4
\* longest logical line explored: one screenful and one character
\* (logical_x is an int32_t that only a newline or a clear resets)
MaxLogicalX == NUM_ROWS * NUM_COLS + 1

ATTRIB == 7
VIDEO_MEM_SIZE == NUM_ROWS * NUM_COLS * 2

CH_BS == 8
CH_LF == 10
CH_CR == 13
CH_SPACE == 32

\* memmove(mem + dst, mem + src, n).  A source byte that lies outside the
\* array is not the array's: its value is oob.
memmove(mem, dst, src, n, oob) ==
    [k \in DOMAIN mem |->
        IF k >= dst /\ k < dst + n
        THEN IF (src + (k - dst)) \in DOMAIN mem
             THEN mem[src + (k - dst)]
             ELSE oob
        ELSE mem[k]]

\* memset(mem + dst, val, n)
memset(mem, dst, val, n) ==
    [k \in DOMAIN mem |-> IF k >= dst /\ k < dst + n THEN val ELSE mem[k]]

\* The terminal as one value: the fields of terminal_state_t that
\* terminal.c uses, with the record of stray writes.
Term ==
    [video_mem |-> video_mem, cursor |-> cursor, input |-> input_buf,
     stray |-> stray]

SetTerm(t) ==
    /\ video_mem' = t.video_mem
    /\ cursor' = t.cursor
    /\ input_buf' = t.input
    /\ stray' = t.stray

terminal_scroll_down_keeps_bottom(vm) ==
    LET bytes_per_row == NUM_COLS * 2
        shift_count == ((NUM_COLS * NUM_ROWS) * 2) - bytes_per_row
    IN  memmove(vm, 0, bytes_per_row, shift_count, 0)

terminal_scroll_down(vm) ==
    LET bytes_per_row == NUM_COLS * 2
        shift_count == ((NUM_COLS * NUM_ROWS) * 2) - bytes_per_row
    IN  memset(memmove(vm, 0, bytes_per_row, shift_count, 0),
               shift_count, 0, bytes_per_row)

\* A write at a cursor that lies outside the screen goes to memory that is
\* not the video memory.
terminal_write_char(t, c) ==
    LET x == t.cursor.screen_x
        y == t.cursor.screen_y
        at == (y * NUM_COLS + x) * 2
    IN  IF at \in DOMAIN t.video_mem /\ (at + 1) \in DOMAIN t.video_mem
        THEN [t EXCEPT !.video_mem = [@ EXCEPT ![at] = c, ![at + 1] = ATTRIB]]
        ELSE [t EXCEPT !.stray = TRUE]

\* Scroll if we're at the bottom: terminal_scroll_down(); screen_y--
scroll_if_bottom(t) ==
    IF t.cursor.screen_y >= NUM_ROWS
    THEN [t EXCEPT !.video_mem = terminal_scroll_down(@),
                   !.cursor.screen_y = @ - 1]
    ELSE t

\* terminal_putc, c == '\n' || c == '\r'
putc_newline(t) ==
    scroll_if_bottom([t EXCEPT !.cursor.logical_x = 0,
                               !.cursor.screen_x = 0,
                               !.cursor.screen_y = @ + 1])

\* terminal_putc, c == '\b'
putc_backspace(t) ==
    IF t.cursor.logical_x > 0
    THEN LET back == [t EXCEPT !.cursor.logical_x = @ - 1,
                               !.cursor.screen_x = @ - 1]
             up   == IF back.cursor.screen_x < 0
                     THEN [back EXCEPT !.cursor.screen_y = @ - 1,
                                       !.cursor.screen_x = @ + NUM_COLS]
                     ELSE back
         IN  terminal_write_char(up, CH_SPACE)
    ELSE t

\* terminal_putc, any other character
putc_plain(t, c) ==
    LET w == terminal_write_char(t, c)
        r == [w EXCEPT !.cursor.logical_x = @ + 1, !.cursor.screen_x = @ + 1]
        wrapped == IF r.cursor.screen_x >= NUM_COLS
                   THEN [r EXCEPT !.cursor.screen_y = @ + 1,
                                  !.cursor.screen_x = @ - NUM_COLS]
                   ELSE r
    IN  scroll_if_bottom(wrapped)

terminal_putc(t, c) ==
    IF c = CH_LF \/ c = CH_CR THEN putc_newline(t)
    ELSE IF c = CH_BS THEN putc_backspace(t)
    ELSE putc_plain(t, c)

terminal_clear_keeps_logical(t) ==
    [t EXCEPT !.video_mem = [k \in DOMAIN @ |-> IF k % 2 = 0 THEN CH_SPACE ELSE ATTRIB],
              !.cursor = [@ EXCEPT !.screen_x = 0, !.screen_y = 0]]

terminal_clear(t) ==
    [t EXCEPT !.video_mem = [k \in DOMAIN @ |-> IF k % 2 = 0 THEN CH_SPACE ELSE ATTRIB],
              !.cursor = [logical_x |-> 0, screen_x |-> 0, screen_y |-> 0]]

RECURSIVE terminal_write(_, _)
\* terminal_write: terminal_putc(src[i]) for every i, in order
terminal_write(t, src) ==
    IF src = <<>> THEN t
    ELSE terminal_write(terminal_putc(t, Head(src)), Tail(src))

---------------------------------------------------------------------------
(* The input buffer and the keyboard's events *)

\* The bytes the buffer holds: buf[0 .. count - 1], in order.
Buffered(ib) == [k \in 1 .. ib.count |-> ib.buf[k - 1]]

handle_char_input_no_limit(t, c) ==
    IF c = CH_BS /\ t.input.count > 0
    THEN terminal_putc([t EXCEPT !.input.count = @ - 1], c)
    ELSE IF c # CH_BS
         THEN terminal_putc(
                 [t EXCEPT !.input.buf =
                              [k \in DOMAIN @ |->
                                  IF k = t.input.count % TERMINAL_BUF_SIZE
                                  THEN c ELSE @[k]],
                           !.input.count =
                              IF @ < TERMINAL_BUF_SIZE THEN @ + 1 ELSE @], c)
         ELSE t

\* handle_char_input echoing a backspace whether or not anything is buffered
handle_char_input_echo_always(t, c) ==
    IF c = CH_BS
    THEN terminal_putc([t EXCEPT !.input.count = IF @ > 0 THEN @ - 1 ELSE 0], c)
    ELSE IF c # CH_BS /\ t.input.count < TERMINAL_BUF_SIZE
         THEN terminal_putc(
                 [t EXCEPT !.input.buf = [@ EXCEPT ![t.input.count] = c],
                           !.input.count = @ + 1], c)
         ELSE t

handle_char_input(t, c) ==
    IF c = CH_BS /\ t.input.count > 0
    THEN terminal_putc([t EXCEPT !.input.count = @ - 1], c)
    ELSE IF c # CH_BS /\ t.input.count < TERMINAL_BUF_SIZE
         THEN terminal_putc(
                 [t EXCEPT !.input.buf = [@ EXCEPT ![t.input.count] = c],
                           !.input.count = @ + 1], c)
         ELSE t

\* KCTL_TERM1..3 select the displayed terminal; the decoder produces none
\* of them and only one terminal exists.
\* handle_ctrl_input whose reserved controls clear the screen
handle_ctrl_input_reserved_clear(t, ctrl) ==
    CASE ctrl = KCTL_CLEAR -> terminal_clear(t)
      [] ctrl = KCTL_TERM1 -> t
      [] ctrl = KCTL_TERM2 -> terminal_clear(t)
      [] ctrl = KCTL_TERM3 -> terminal_clear(t)
      [] OTHER             -> t

\* KCTL_TERM1: set_display_terminal(0), the one terminal there is here and
\* the one displayed; KCTL_TERM2, KCTL_TERM3: nothing; default: debugf.
handle_ctrl_input(t, ctrl) ==
    CASE ctrl = KCTL_CLEAR -> terminal_clear(t)
      [] ctrl = KCTL_TERM1 -> t
      [] ctrl = KCTL_TERM2 -> t
      [] ctrl = KCTL_TERM3 -> t
      [] OTHER             -> t

terminal_handle_input(t, ev) ==
    IF ev.type = KTYP_CHAR THEN handle_char_input(t, ev.value)
    ELSE IF ev.type = KTYP_CTRL THEN handle_ctrl_input(t, ev.value)
    ELSE t

---------------------------------------------------------------------------
(* terminal_read and wait_until_readable, statement by statement *)

\* The record of the characters the buffer took in and of the bytes the reads
\* gave back, kept only where it is switched on, and then for at most MaxStream
\* characters.
MaxStream == 4
NoStream == [on |-> FALSE, accepted |-> <<>>, returned |-> <<>>]
Accept(b) ==
    IF stream.on /\ b.count > input_buf.count
    THEN [stream EXCEPT !.accepted = Append(@, b.buf[input_buf.count])]
    ELSE stream
GiveBack(dest) ==
    IF stream.on THEN [stream EXCEPT !.returned = @ \o dest] ELSE stream

\* An activation: its statements still to run, its arguments and locals,
\* and for the record the number of bytes buffered at entry (start), the
\* bytes buffered when the wait ended (seen) and at return (left).
IdleRead ==
    [todo |-> <<>>, req |-> 0, nbytes |-> 0, i |-> 0, dest |-> <<>>,
     start |-> 0, seen |-> <<>>, left |-> <<>>, result |-> 0, done |-> FALSE]

\* What an activation that returned leaves behind is visible in the state
\* right after its return only.
Settled(r) == IF r.todo = <<>> THEN IdleRead ELSE r

wait_loop_no_cli == <<"sti", "hlt", "while">>
wait_loop_no_recheck == <<"sti", "hlt", "cli">>

\* sti(); hlt(); cli(); and back to the loop's condition
wait_loop == <<"sti", "hlt", "cli", "while">>

\* The statements of terminal_read, with wait_until_readable in line.
terminal_read_stmts ==
    <<"clip", "while", "copy", "memmove", "count", "return">>

\* sti: the interrupt flag is set, and interrupts are held off until the instruction after
\* it has executed.
sti_immediate == [enabled |-> TRUE, shadow |-> FALSE]
sti == [enabled |-> TRUE, shadow |-> TRUE]

\* Index of the first '\n' among the first n bytes, or -1.
FirstNewline(buf, n) ==
    LET at == {k \in 0 .. (n - 1) : buf[k] = CH_LF}
    IN  IF at = {} THEN -1 ELSE CHOOSE k \in at : \A j \in at : k <= j

\* The out-of-array bytes memmove may read.
OobBytes == {0, 255}

\* memmove(&buf[0], &buf[i], i)
read_shift(ib, i, oob) == memmove(ib.buf, 0, i, i, oob)

ReadRunning(st) ==
    /\ rd.todo # <<>> /\ rd.todo[1] = st
    /\ ~hlt_wait
    /\ ~halted

ReadFrame(r) ==
    /\ rd' = r
    /\ UNCHANGED <<dispatchVars, registryVars, kbdVars, initVars>>

Next1(r) == [r EXCEPT !.todo = Tail(@)]

\* The read system call enters through an interrupt gate: the flag is cleared.
SysRead(n) ==
    /\ rd.todo = <<>>
    /\ ~halted
    /\ int_flag /\ ~sti_shadow
    /\ ReadFrame([IdleRead EXCEPT !.todo = terminal_read_stmts,
                                  !.req = n, !.nbytes = n,
                                  !.start = input_buf.count])
    /\ int_flag' = FALSE
    /\ UNCHANGED <<termVars, sti_shadow, hlt_wait>>

\* terminal_read without the limit on nbytes
ReadClip_no_limit ==
    /\ ReadRunning("clip")
    /\ ReadFrame(Next1(rd))
    /\ UNCHANGED <<termVars, int_flag, sti_shadow, hlt_wait>>

\* if (nbytes > TERMINAL_BUF_SIZE) nbytes = TERMINAL_BUF_SIZE
ReadClip ==
    /\ ReadRunning("clip")
    /\ ReadFrame([Next1(rd) EXCEPT !.nbytes =
                    IF @ > TERMINAL_BUF_SIZE THEN TERMINAL_BUF_SIZE ELSE @])
    /\ UNCHANGED <<termVars, int_flag, sti_shadow, hlt_wait>>

\* while (nbytes > input_buf->count): the loop is left with nbytes
ReadWhile ==
    /\ ReadRunning("while")
    /\ IF rd.nbytes > input_buf.count
       THEN ReadFrame([rd EXCEPT !.todo = <<"scan">> \o @])
       ELSE ReadFrame([Next1(rd) EXCEPT !.seen = Buffered(input_buf)])
    /\ UNCHANGED <<termVars, int_flag, sti_shadow, hlt_wait>>

\* for (i = 0; i < count; ++i) if (buf[i] == '\n') return i + 1;
ReadScan ==
    /\ ReadRunning("scan")
    /\ LET nl == FirstNewline(input_buf.buf, input_buf.count)
       IN  IF nl >= 0
           THEN ReadFrame([rd EXCEPT !.todo = Tail(Tail(@)),
                                     !.nbytes = nl + 1,
                                     !.seen = Buffered(input_buf)])
           ELSE ReadFrame([rd EXCEPT !.todo = wait_loop \o Tail(Tail(@))])
    /\ UNCHANGED <<termVars, int_flag, sti_shadow, hlt_wait>>

ReadSti ==
    /\ ReadRunning("sti")
    /\ ReadFrame(Next1(rd))
    /\ int_flag' = sti.enabled
    /\ sti_shadow' = sti.shadow
    /\ UNCHANGED <<termVars, hlt_wait>>

\* hlt: the processor stops until an interrupt is delivered
ReadHlt ==
    /\ ReadRunning("hlt")
    /\ ReadFrame(Next1(rd))
    /\ sti_shadow' = FALSE
    /\ hlt_wait' = TRUE
    /\ UNCHANGED <<termVars, int_flag>>

ReadCli ==
    /\ ReadRunning("cli")
    /\ ReadFrame(Next1(rd))
    /\ int_flag' = FALSE
    /\ sti_shadow' = FALSE
    /\ UNCHANGED <<termVars, hlt_wait>>

\* for (i = 0; i < nbytes; ++i) *dest++ = input_buf->buf[i];
ReadCopy ==
    /\ ReadRunning("copy")
    /\ LET n == IF rd.nbytes > 0 THEN rd.nbytes ELSE 0
       IN  ReadFrame([Next1(rd) EXCEPT
                         !.dest = [k \in 1 .. n |-> input_buf.buf[k - 1]],
                         !.i = n])
    /\ UNCHANGED <<termVars, int_flag, sti_shadow, hlt_wait>>

ReadMemmove ==
    /\ ReadRunning("memmove")
    /\ \E oob \in OobBytes :
          input_buf' = [input_buf EXCEPT !.buf = read_shift(input_buf, rd.i, oob)]
    /\ ReadFrame(Next1(rd))
    /\ UNCHANGED <<video_mem, cursor, written, stray, stream, int_flag, sti_shadow,
                   hlt_wait>>

\* input_buf->count -= i
ReadCount ==
    /\ ReadRunning("count")
    /\ input_buf' = [input_buf EXCEPT !.count = @ - rd.i]
    /\ ReadFrame(Next1(rd))
    /\ UNCHANGED <<video_mem, cursor, written, stray, stream, int_flag, sti_shadow,
                   hlt_wait>>

\* return i: back to the caller, whose interrupts are enabled
ReadReturn ==
    /\ ReadRunning("return")
    /\ ReadFrame([Next1(rd) EXCEPT !.result = rd.i, !.done = TRUE,
                                   !.left = Buffered(input_buf)])
    /\ int_flag' = TRUE
    /\ stream' = GiveBack(rd.dest)
    /\ UNCHANGED <<video_mem, cursor, input_buf, written, stray, sti_shadow,
                   hlt_wait>>

ReadStep ==
    \/ ReadClip
    \/ ReadWhile
    \/ ReadScan
    \/ ReadSti
    \/ ReadHlt
    \/ ReadCli
    \/ ReadCopy
    \/ ReadMemmove
    \/ ReadCount
    \/ ReadReturn

---------------------------------------------------------------------------
(* Interrupts and calls that reach the terminal *)

\* The processor takes an interrupt when the flag is set and the instruction
\* after an sti has executed; a processor that waits in hlt resumes.
Deliverable == int_flag /\ ~sti_shadow /\ ~halted

TermGuard(t) == t.cursor.logical_x <= MaxLogicalX

\* An empty terminal: every cell blank, the cursor at the top left.
Cleared(t) == t.video_mem = terminal_clear(t).video_mem /\ t.cursor = terminal_clear(t).cursor

NoWrite == [src |-> <<>>, fresh |-> FALSE]
\* terminal_clear was the last thing done to the screen
JustCleared == [src |-> <<>>, fresh |-> TRUE]

\* An interrupt of another device: it wakes the processor and leaves the
\* terminal alone.
other_interrupt ==
    /\ Deliverable
    /\ hlt_wait
    /\ hlt_wait' = FALSE
    /\ rd' = Settled(rd)
    /\ UNCHANGED <<dispatchVars, registryVars, kbdVars, initVars, termVars,
                   int_flag, sti_shadow>>

\* The write system call, and terminal_clear called by the kernel.
TerminalWrite(src) ==
    /\ rd.todo = <<>> /\ Deliverable
    /\ LET t == terminal_write(Term, src)
       IN  TermGuard(t) /\ SetTerm(t)
    /\ written' = [src |-> src, fresh |-> Cleared(Term)]
    /\ rd' = Settled(rd)
    /\ UNCHANGED <<dispatchVars, registryVars, kbdVars, initVars, stream,
                   int_flag, sti_shadow, hlt_wait>>

\* A program that writes only while nothing is buffered.
WriteWhileEmpty(src) ==
    /\ input_buf.count = 0
    /\ TerminalWrite(src)

TerminalClear ==
    /\ rd.todo = <<>> /\ Deliverable
    /\ SetTerm(terminal_clear(Term))
    /\ written' = JustCleared
    /\ rd' = Settled(rd)
    /\ UNCHANGED <<dispatchVars, registryVars, kbdVars, initVars, stream,
                   int_flag, sti_shadow, hlt_wait>>

---------------------------------------------------------------------------
(* The keyboard's interrupt *)

\* Packets read from the keyboard's data port when the decoder is explored:
\* press and release of every modifier key, of the 'a' key and of a keycode
\* beyond the table.  (Every character key that is pressed is echoed and
\* buffered by the terminal, so the keys pressed are kept few; the decoder's
\* result for every other keycode is examined through process_packet.)
RELEASE == 128
ModifierKeycodes ==
    {KC_LCTRL, KC_RCTRL, KC_LSHIFT, KC_RSHIFT, KC_LALT, KC_RALT, KC_CAPS_LOCK}
SampleKeycodes == {30, 127}
Packets ==
    {k + r : k \in ModifierKeycodes \cup SampleKeycodes, r \in {0, RELEASE}}

\* handle_keyboard_irq: packet = inb(KEYBOARD_PORT); process_packet(packet)
\* and terminal_handle_input(input).  The handler is entered through an
\* interrupt gate and runs with interrupts disabled; a processor that waited
\* in hlt resumes after it.
handle_keyboard_irq(packet) ==
    /\ Deliverable
    /\ stream.on => Len(stream.accepted) < MaxStream
    /\ LET r == process_packet(modifiers, packet)
           t == terminal_handle_input(Term, r.input)
       IN  /\ TermGuard(t)
           /\ modifiers' = r.mods
           /\ input' = r.input
           /\ SetTerm(t)
           /\ written' = IF r.input = [type |-> KTYP_CTRL, value |-> KCTL_CLEAR]
                         THEN JustCleared ELSE NoWrite
           /\ stream' = Accept(t.input)
    /\ mod_before' = modifiers
    /\ last_packet' = packet
    /\ hlt_wait' = FALSE
    /\ rd' = Settled(rd)
    /\ UNCHANGED <<dispatchVars, registryVars, initVars, int_flag, sti_shadow>>

---------------------------------------------------------------------------
(* Initial states and specifications *)

InitDispatch ==
    /\ frames = <<>>
    /\ ret = <<>>
    /\ halted = FALSE
    /\ pending = {}
    /\ in_service = {}

\* keyboard_init registered the keyboard's handler on its line.
IRQ_KEYBOARD == 1

InitRegistry ==
    /\ irq_handlers = [l \in Lines |-> IF l = IRQ_KEYBOARD THEN CB_KEYBOARD ELSE NULL]
    /\ irq_enabled = {IRQ_KEYBOARD}
    /\ last_op = NoOp
    /\ reg_ops = 0

InitKbd ==
    /\ modifiers = {}
    /\ last_packet = -1
    /\ mod_before = {}
    /\ input = NoInput

\* The terminal as the kernel's entry leaves it: cleared, nothing typed,
\* no read in progress.
InitTerm ==
    /\ video_mem = [k \in 0 .. (VIDEO_MEM_SIZE - 1) |->
                       IF k % 2 = 0 THEN CH_SPACE ELSE ATTRIB]
    /\ cursor = [logical_x |-> 0, screen_x |-> 0, screen_y |-> 0]
    /\ input_buf = [buf |-> [k \in 0 .. (TERMINAL_BUF_SIZE - 1) |-> 0],
                    count |-> 0]
    /\ written = NoWrite
    /\ stray = FALSE
    /\ stream = NoStream
    /\ rd = IdleRead
    /\ sti_shadow = FALSE
    /\ hlt_wait = FALSE

InitIdtTable ==
    /\ idt = <<>>
    /\ desc = <<>>
    /\ init_i = 0
    /\ init_todo = <<>>
    /\ idtr = FALSE

\* The state after boot, shared by the dispatcher and the registry.
InitIdt ==
    /\ InitDispatch
    /\ InitRegistry
    /\ InitKbd
    /\ InitIdtTable
    /\ InitTerm
    /\ int_flag = TRUE

\* The dispatcher: any vector, from user or kernel code.
NextIdt ==
    \/ \E v \in Vectors, cs \in CsValues, eax \in EaxValues : Trap(v, cs, eax)
    \/ ExecCommon
    \/ ExecIrqPath
    \/ ExecOtherPaths

SpecIdt == InitIdt /\ [][NextIdt]_vars

\* The registry: drivers register and unregister, lines interrupt.
NextIrq ==
    \/ \E l \in Lines, cb \in Callbacks : register_irq_handler(l, cb)
    \/ \E l \in Lines : unregister_irq_handler(l)
    \/ \E v \in IrqVectors : Trap(v, KERNEL_CS, 1)
    \/ ExecCommon
    \/ ExecIrqPath

SpecIrq == InitIdt /\ [][NextIrq]_vars

\* The registry on its own: a call of register or unregister, on a table
\* that earlier calls left with any callbacks on the first, second and last
\* line, each line enabled exactly when it holds one.
SampleLines == {0, IRQ_KEYBOARD, NUM_IRQ - 1}

InitReg ==
    /\ InitDispatch
    /\ irq_handlers \in {[l \in Lines |-> IF l \in SampleLines THEN g[l] ELSE NULL] :
                            g \in [SampleLines -> Callbacks \cup {NULL}]}
    /\ irq_enabled = {l \in Lines : irq_handlers[l] # NULL}
    /\ last_op = NoOp
    /\ reg_ops = 0
    /\ InitKbd
    /\ InitIdtTable
    /\ InitTerm
    /\ int_flag = TRUE

NextReg ==
    \/ \E l \in Lines, cb \in Callbacks : register_irq_handler(l, cb)
    \/ \E l \in Lines : unregister_irq_handler(l)

SpecReg == InitReg /\ [][NextReg]_vars

\* Boot: idt_init runs once, on the table as the loader left it.  The loop
\* variable i starts with whatever the stack held.
InitBoot ==
    /\ InitDispatch
    /\ irq_handlers = [l \in Lines |-> NULL]
    /\ irq_enabled = {}
    /\ last_op = NoOp
    /\ reg_ops = 0
    /\ InitKbd
    /\ idt = [v \in Vectors |-> EmptyGate]
    /\ desc = EmptyGate
    /\ init_i \in {0, NUM_VEC}
    /\ init_todo = idt_init
    /\ idtr = FALSE
    /\ InitTerm
    /\ int_flag = FALSE

NextInit ==
    \/ InitTemplate
    \/ InitLidt
    \/ InitExcSetup
    \/ InitExcLoop
    \/ InitWriteIdtEntry
    \/ InitIntSetup
    \/ InitIntLoop
    \/ InitSyscallDpl

SpecInit == InitBoot /\ [][NextInit]_vars

\* The keyboard: any packet may arrive at any time.
NextKbd == \E p \in Packets : handle_keyboard_irq(p)

SpecKbd == InitIdt /\ [][NextKbd]_vars

\* The screen: programs write 'a', newline and backspace one at a time,
\* the string "ab\bc" and a run of plain characters one longer than the
\* screen, and the kernel clears.
WriteChars == {97, CH_LF, CH_BS}
AbBsC == <<97, 98, CH_BS, 99>>
PlainRun == [k \in 1 .. (NUM_ROWS * NUM_COLS + 1) |-> 97 + (k % 3)]
WriteStrings == {<<c>> : c \in WriteChars} \cup {AbBsC, PlainRun}

NextPutc ==
    \/ \E src \in WriteStrings : TerminalWrite(src)
    \/ TerminalClear

SpecPutc == InitIdt /\ [][NextPutc]_vars

\* The terminal: programs write, the kernel clears, and the user types 'l',
\* Enter and Ctrl (Ctrl+L clears the screen).
EchoStrings == {<<97>>, <<CH_LF>>, <<CH_CR>>, <<CH_BS>>}
TermPackets == {KC_L, 28, KC_LCTRL, KC_LCTRL + RELEASE}

NextTerm ==
    \/ \E src \in EchoStrings : TerminalWrite(src)
    \/ TerminalClear
    \/ \E p \in TermPackets : handle_keyboard_irq(p)

SpecTerm == InitIdt /\ [][NextTerm]_vars

\* The blocking read: a program reads while the user types 'a', enter and
\* backspace, and other devices interrupt.
ReadSizes == {2, TERMINAL_BUF_SIZE + 1}
ReadPackets == {30, 28, 14}

NextRead ==
    \/ \E n \in ReadSizes : SysRead(n)
    \/ ReadStep
    \/ \E p \in ReadPackets : handle_keyboard_irq(p)
    \/ other_interrupt

SpecRead == InitIdt /\ [][NextRead]_vars

\* The same, with a processor that goes on executing instructions as long as
\* it is not halted.  Interrupts are the environment's: none is ever owed.
SpecReadFair == SpecRead /\ WF_vars(ReadStep)

\* The stream of input: the user types 'a' and Enter, never backspace, while
\* a program reads; what the buffer accepts and what the reads return is kept.
StreamPackets == {30, 28}

InitStream ==
    /\ InitDispatch
    /\ InitRegistry
    /\ InitKbd
    /\ InitIdtTable
    /\ video_mem = [k \in 0 .. (VIDEO_MEM_SIZE - 1) |->
                       IF k % 2 = 0 THEN CH_SPACE ELSE ATTRIB]
    /\ cursor = [logical_x |-> 0, screen_x |-> 0, screen_y |-> 0]
    /\ input_buf = [buf |-> [k \in 0 .. (TERMINAL_BUF_SIZE - 1) |-> 0],
                    count |-> 0]
    /\ written = NoWrite
    /\ stray = FALSE
    /\ stream = [NoStream EXCEPT !.on = TRUE]
    /\ rd = IdleRead
    /\ sti_shadow = FALSE
    /\ hlt_wait = FALSE
    /\ int_flag = TRUE

NextStream ==
    \/ \E n \in ReadSizes : SysRead(n)
    \/ ReadStep
    \/ \E p \in StreamPackets : handle_keyboard_irq(p)

SpecStream == InitStream /\ [][NextStream]_vars

\* Requests of any size: a program asks for -1, 0 and more bytes than the
\* buffer holds, while the user types 'a' and never Enter.
CapSizes == {-1, 0, TERMINAL_BUF_SIZE + 1}
CapPackets == {30}

NextCap ==
    \/ \E n \in CapSizes : SysRead(n)
    \/ ReadStep
    \/ \E p \in CapPackets : handle_keyboard_irq(p)
    \/ other_interrupt

SpecCap == InitIdt /\ [][NextCap]_vars

\* Erasing: a program writes 'x', or 'x' and a newline, only while the input
\* buffer is empty, and the user types 'a', Enter and Backspace.
CH_X == 120
EraseStrings == {<<CH_X>>, <<CH_X, CH_LF>>}
ErasePackets == {30, 28, 14}

NextErase ==
    \/ \E src \in EraseStrings : WriteWhileEmpty(src)
    \/ \E p \in ErasePackets : handle_keyboard_irq(p)

SpecErase == InitIdt /\ [][NextErase]_vars

---------------------------------------------------------------------------
(* Properties of the dispatcher *)

InSeq(x, s)  == \E i \in 1 .. Len(s) : s[i] = x
Count(x, s)  == Cardinality({i \in 1 .. Len(s) : s[i] = x})
Before(x, y, s) ==
    \A j \in 1 .. Len(s) : s[j] = y => \E i \in 1 .. (j - 1) : s[i] = x

\* Every frame there is: those on the stack and the one that just returned.
FrameSet == {frames[i] : i \in 1 .. Depth} \cup {ret[i] : i \in 1 .. Len(ret)}
Returned(f) == ret = <<f>>

KernelExc(f) == f.entry.int_num < NUM_EXC /\ f.entry.cs # USER_CS
UserExc(f)   == f.entry.int_num < NUM_EXC /\ f.entry.cs = USER_CS
IrqFrame(f)  == f.entry.int_num >= INT_IRQ0 /\ f.entry.int_num <= INT_IRQ15
SysFrame(f)  == f.entry.int_num = INT_SYSCALL
UnknownFrame(f) == ~KernelExc(f) /\ ~UserExc(f) /\ ~IrqFrame(f) /\ ~SysFrame(f)

\* C1: a kernel-mode exception (vector < NUM_EXC, cs # USER_CS) never
\* returns: its dispatch dumps the registers and enters loop(), which halts
\* the system with the frame still on the stack; it raises no signal and
\* never reaches the check for pending signals.
C1_KernelExceptionHalts ==
    /\ \A f \in FrameSet : KernelExc(f) =>
          /\ ~Returned(f)
          /\ f.sigs = <<>>
          /\ ~InSeq("signal_check", f.log)
          /\ ~InSeq("signal_handle_all", f.log)
          /\ f.todo # <<>>
          /\ InSeq("handle_exception", f.log) =>
                \/ f.todo[1] = "dump_registers"
                \/ f.todo[1] = "loop" /\ InSeq("dump_registers", f.log)
          /\ InSeq("loop", f.log) => halted /\ f.todo[1] = "loop"
    /\ halted => KernelExc(Top) /\ InSeq("loop", Top.log)

C1_Witness ==
    /\ halted
    /\ KernelExc(Top)
    /\ InSeq("dump_registers", Top.log)
    /\ Top.todo # <<>> /\ Top.todo[1] = "loop"

\* C2: a user-mode exception (vector < NUM_EXC, cs = USER_CS) returns
\* without halting and raises exactly one signal against the executing
\* process: SIG_DIV_ZERO for the divide error, SIG_SEGFAULT for every other
\* exception.
C2_UserExceptionSignals ==
    \A f \in FrameSet : UserExc(f) =>
        /\ ~halted
        /\ ~InSeq("loop", f.todo) /\ ~InSeq("loop", f.log)
        /\ ~InSeq("dump_registers", f.todo) /\ ~InSeq("dump_registers", f.log)
        /\ Len(f.sigs) <= 1
        /\ (f.todo = <<>> \/ Returned(f)) =>
              f.sigs = <<IF f.entry.int_num = EXC_DE THEN SIG_DIV_ZERO
                         ELSE SIG_SEGFAULT>>
        /\ (~Returned(f) /\ InSeq("handle_user_exception", f.log)
              /\ ~InSeq("signal_handle_all", f.log)) =>
              \A i \in 1 .. Len(f.sigs) : f.sigs[i] \in pending
        /\ ~Returned(f) => ENABLED (ExecCommon \/ ExecOtherPaths)

C2_Witness ==
    \E f \in FrameSet :
        /\ Returned(f) /\ UserExc(f)
        /\ f.entry.int_num = EXC_DE
        /\ f.sigs = <<SIG_DIV_ZERO>>

\* The statements of the exception, IRQ and syscall paths and of the
\* unknown-vector branch.
PathStmts ==
    {"handle_exception", "handle_user_exception", "dump_registers", "loop",
     "handle_irq", "callback", "callback_running", "send_eoi",
     "handle_syscall", "syscall_handle", "debugf_unknown"}

\* The last statement of each path that returns.
PathEnds ==
    {"handle_user_exception", "send_eoi", "syscall_handle", "debugf_unknown"}

\* C3: signal_handle_all runs in a dispatch if and only if the interrupted
\* context was user-privilege (cs = USER_CS), at most once, and only after
\* the exception/IRQ/syscall path of that trap has completed; a trap that
\* interrupted kernel code, such as an IRQ nested in a blocked syscall,
\* never delivers signals.
C3_SignalsAfterPathUserOnly ==
    /\ \A f \in FrameSet :
          /\ Count("signal_handle_all", f.log) <= 1
          /\ (InSeq("signal_handle_all", f.log)
                \/ InSeq("signal_handle_all", f.todo)) =>
                /\ f.entry.cs = USER_CS
                /\ \A i \in 1 .. Len(f.todo) : f.todo[i] \notin PathStmts
                /\ \E i \in 1 .. Len(f.log) : f.log[i] \in PathEnds
                /\ \A i \in 1 .. Len(f.log) : f.log[i] \in PathStmts =>
                      \A j \in 1 .. Len(f.log) :
                          f.log[j] = "signal_handle_all" => i < j
          /\ Returned(f) =>
                (InSeq("signal_handle_all", f.log) <=> f.entry.cs = USER_CS)
    /\ \A i \in 2 .. Depth :
          /\ frames[i].entry.cs # USER_CS
          /\ ~InSeq("signal_handle_all", frames[i].log)
          /\ ~InSeq("signal_handle_all", frames[i - 1].log)

\* An IRQ nested in a syscall of user code returns without delivery, the
\* syscall still blocked.
C3_Witness ==
    /\ Depth = 1
    /\ SysFrame(Top) /\ Top.entry.cs = USER_CS
    /\ Top.todo # <<>> /\ Top.todo[1] = "syscall_handle"
    /\ \E f \in FrameSet :
          /\ Returned(f) /\ IrqFrame(f)
          /\ f.eois # <<>>
          /\ ~InSeq("signal_handle_all", f.log)

PathStarts ==
    {"handle_exception", "handle_irq", "handle_syscall", "debugf_unknown"}

PathsTaken(f) ==
    {s \in PathStarts : InSeq(s, f.log) \/ InSeq(s, f.todo)}

\* C4: every vector 0..255 takes exactly one of four paths: the exception
\* path if vector < NUM_EXC, the IRQ path if INT_IRQ0 <= vector <=
\* INT_IRQ15 (with line = vector - INT_IRQ0 in [0,16)), the syscall path if
\* vector = INT_SYSCALL, else log-and-ignore, which invokes no callback,
\* raises no signal, sends no end-of-interrupt and does not halt.
C4_FourExclusivePaths ==
    \A f \in FrameSet :
        /\ f.entry.int_num \in 0 .. 255
        /\ InSeq("idt_handle_interrupt", f.log) =>
              PathsTaken(f) =
                 {IF f.entry.int_num < NUM_EXC THEN "handle_exception"
                  ELSE IF f.entry.int_num \in INT_IRQ0 .. INT_IRQ15
                       THEN "handle_irq"
                  ELSE IF f.entry.int_num = INT_SYSCALL THEN "handle_syscall"
                  ELSE "debugf_unknown"}
        /\ \A s \in PathStarts : Count(s, f.log) + Count(s, f.todo) <= 1
        /\ InSeq("handle_irq", f.log) =>
              f.line = f.entry.int_num - INT_IRQ0 /\ f.line >= 0 /\ f.line < 16
        /\ UnknownFrame(f) =>
              /\ f.cbs = <<>> /\ f.sigs = <<>> /\ f.eois = <<>>
              /\ ~InSeq("loop", f.log) /\ ~InSeq("loop", f.todo)
              /\ f.regs = f.entry
              /\ (Depth > 0 /\ f = Top) => ~halted

C4_Witness ==
    \E f \in FrameSet :
        /\ Returned(f) /\ UnknownFrame(f)
        /\ f.entry.int_num = INT_IRQ15 + 1
        /\ InSeq("debugf_unknown", f.log)

---------------------------------------------------------------------------
(* Properties of idt_init *)

Installed == init_todo = <<>> /\ idtr

\* C5: after idt_init completes, every one of the 256 vectors resolves to
\* exactly one entry point (a present gate into the kernel's code segment
\* whose offset is the vector's own handler), the syscall vector's gate has
\* privilege level 3 and every other vector's gate has privilege level 0.
C5_InstalledTable ==
    Installed =>
        /\ DOMAIN idt = 0 .. 255
        /\ \A v \in 0 .. 255 :
              /\ idt[v].present = 1
              /\ idt[v].seg_selector = KERNEL_CS
              /\ idt[v].offset # NULL
              /\ idt[v].offset =
                    (IF v < 20 THEN exc_entry_points[v + 1]
                     ELSE IF v \in 32 .. 47 THEN irq_entry_points[v - 31]
                     ELSE IF v = 128 THEN SYSCALL_ENTRY
                     ELSE UNKNOWN_ENTRY)
              /\ idt[v].dpl = (IF v = 128 THEN 3 ELSE 0)

C5_Witness ==
    /\ Installed
    /\ idt[INT_SYSCALL].dpl = 3
    /\ idt[INT_SYSCALL].offset = SYSCALL_ENTRY
    /\ idt[NUM_VEC - 1].offset = UNKNOWN_ENTRY

---------------------------------------------------------------------------
(* Properties of the keyboard decoder *)

ShiftHeld(mods) == mods \cap KMOD_SHIFT # {}
CapsOn(mods)    == mods \cap KMOD_CAPS # {}
\* Neither Ctrl nor Alt is held: the combinations that select a character
\* table.
CharTable(mods) == mods \cap (KMOD_CTRL \cup KMOD_ALT) = {}

IsLower(c) == c >= 97 /\ c <= 122
IsUpper(c) == c >= 65 /\ c <= 90
LetterKeycodes == {k \in 0 .. (NUM_KEYS - 1) : IsLower(KeycodeMap(0, k))}

\* The examples of C9: the 'a' keycode (0x1E = 30) pressed with no
\* modifiers, with only Shift held, with only Caps on, with Caps on and
\* Shift held, and its release (0x9E = 158).
LetterAExamples ==
    /\ last_packet = 30 =>
          /\ mod_before = {} => input = [type |-> KTYP_CHAR, value |-> 97]
          /\ (ShiftHeld(mod_before) /\ mod_before \subseteq KMOD_SHIFT) =>
                input = [type |-> KTYP_CHAR, value |-> 65]
          /\ mod_before = KMOD_CAPS => input = [type |-> KTYP_CHAR, value |-> 65]
          /\ (ShiftHeld(mod_before) /\ CapsOn(mod_before)
                /\ mod_before \subseteq KMOD_SHIFT \cup KMOD_CAPS) =>
                input = [type |-> KTYP_CHAR, value |-> 97]
    /\ last_packet = 158 => input.type = KTYP_NONE

\* C9 as stated: a press of the 'a' keycode yields 'a' with no modifiers,
\* 'A' with Shift held, 'A' with Caps on, 'a' with Caps on and Shift held,
\* its release yields a no-op event, and for every letter keycode, in every
\* modifier state, the output is upper case exactly when exactly one of
\* Shift and Caps is active.
C9_LetterCaseAsStated ==
    /\ LetterAExamples
    /\ \A k \in LetterKeycodes :
          LET e == process_packet(modifiers, k).input
          IN  (e.type = KTYP_CHAR /\ IsUpper(e.value))
                 <=> (ShiftHeld(modifiers) # CapsOn(modifiers))

\* C9 as amended: the examples hold as stated, and for every letter
\* keycode, while neither Ctrl nor Alt is held, the output is the letter, in
\* upper case exactly when exactly one of Shift and Caps is active and in
\* lower case otherwise; while Ctrl or Alt is held a letter key yields no
\* character at all, whatever Shift and Caps are.
C9_LetterCase ==
    /\ LetterAExamples
    /\ \A k \in LetterKeycodes :
          LET e == process_packet(modifiers, k).input
              lower == KeycodeMap(0, k)
          IN  IF CharTable(modifiers)
              THEN /\ e.type = KTYP_CHAR
                   /\ IF ShiftHeld(modifiers) # CapsOn(modifiers)
                      THEN e.value = lower - 32 /\ IsUpper(e.value)
                      ELSE e.value = lower /\ IsLower(e.value)
              ELSE e.type # KTYP_CHAR
    /\ (last_packet \in LetterKeycodes /\ CharTable(mod_before)) =>
          (IsUpper(input.value) <=> (ShiftHeld(mod_before) # CapsOn(mod_before)))
    /\ (last_packet \in LetterKeycodes /\ ~CharTable(mod_before)) =>
          input.type # KTYP_CHAR

C9_Witness ==
    /\ last_packet = 30
    /\ mod_before = KMOD_CAPS \cup KMOD_LSHIFT
    /\ input = [type |-> KTYP_CHAR, value |-> 97]

\* C10 as stated: from any reachable modifier state, a Left-Shift press
\* packet followed by a Left-Shift release packet returns the modifiers to
\* exactly the value they had before the press.
C10_RoundTripAsStated ==
    [][(last_packet = KC_LSHIFT /\ last_packet' = KC_LSHIFT + RELEASE) =>
          modifiers' = mod_before]_vars

\* C10 as amended: a Left-Shift press packet followed by a Left-Shift
\* release packet leaves the modifiers at their value before the press with
\* the Left-Shift bit clear: exactly the value before the press when
\* Left-Shift was not already set, and that value without Left-Shift when
\* it was (a repeated press packet).
C10_RoundTripClearsLShift ==
    [][(last_packet = KC_LSHIFT /\ last_packet' = KC_LSHIFT + RELEASE) =>
          /\ modifiers' = mod_before \ KMOD_LSHIFT
          /\ (mod_before \cap KMOD_LSHIFT = {}) => modifiers' = mod_before]_vars

\* Left-Shift released after a press that found Caps on and Right-Shift
\* held: both are kept.
C10_Witness ==
    /\ last_packet = KC_LSHIFT + RELEASE
    /\ mod_before = KMOD_CAPS \cup KMOD_SHIFT
    /\ modifiers = KMOD_CAPS \cup KMOD_RSHIFT

---------------------------------------------------------------------------
(* Properties of the IRQ registry *)

\* C6: register(line, cb) followed by dispatch(line) invokes cb exactly
\* once, and every dispatch(line) sends exactly one end-of-interrupt, for
\* that line, whether or not a callback is registered.
C6_RegisteredCallbackOnceEoiOnce ==
    \A f \in FrameSet : IrqFrame(f) =>
        /\ Len(f.cbs) <= 1 /\ Len(f.eois) <= 1
        /\ (f.todo = <<>> \/ Returned(f)) =>
              /\ f.eois = <<f.entry.int_num - INT_IRQ0>>
              /\ (f.prev_op.op = "register"
                    /\ f.prev_op.line = f.entry.int_num - INT_IRQ0) =>
                    f.cbs = <<f.prev_op.cb>>

C6_Witness ==
    \E f \in FrameSet :
        /\ Returned(f) /\ IrqFrame(f)
        /\ f.prev_op.op = "register"
        /\ f.prev_op.line = f.entry.int_num - INT_IRQ0
        /\ f.cbs = <<f.prev_op.cb>>
        /\ f.eois = <<f.prev_op.line>>

\* C7: unregister(line) followed by dispatch(line) invokes no callback but
\* still sends end-of-interrupt for the line, whether or not a handler was
\* registered before the unregister.
C7_UnregisteredNoCallbackStillEoi ==
    \A f \in FrameSet :
        (IrqFrame(f) /\ f.prev_op.op = "unregister"
           /\ f.prev_op.line = f.entry.int_num - INT_IRQ0) =>
            /\ f.cbs = <<>>
            /\ ~InSeq("callback", f.todo)
            /\ (f.todo = <<>> \/ Returned(f)) => f.eois = <<f.prev_op.line>>

\* The keyboard's line, whose handler was registered, after unregister.
C7_Witness ==
    \E f \in FrameSet :
        /\ Returned(f) /\ IrqFrame(f)
        /\ f.prev_op.op = "unregister"
        /\ f.prev_op.line = IRQ_KEYBOARD
        /\ f.entry.int_num = INT_IRQ0 + IRQ_KEYBOARD
        /\ f.cbs = <<>>
        /\ f.eois = <<IRQ_KEYBOARD>>

\* C8: in every IRQ dispatch the end-of-interrupt is sent after the
\* callback has returned, never before, so no line is dispatched again
\* while its callback is still running.
C8_EoiAfterCallback ==
    /\ \A f \in FrameSet : IrqFrame(f) =>
          /\ f.eois # <<>> =>
                /\ ~InSeq("callback", f.todo)
                /\ ~InSeq("callback_running", f.todo)
                /\ Len(f.cbs) = Count("callback_running", f.log)
          /\ Before("callback_running", "send_eoi", f.log) \/ f.cbs = <<>>
    /\ \A i, j \in 1 .. Depth :
          (i < j /\ IrqFrame(frames[i]) /\ IrqFrame(frames[j])) =>
              frames[i].entry.int_num # frames[j].entry.int_num

\* A second line interrupted a running callback and got its end-of-interrupt.
C8_Witness ==
    /\ Depth = 2
    /\ IrqFrame(frames[1]) /\ frames[1].todo # <<>>
    /\ frames[1].todo[1] = "callback_running"
    /\ frames[1].eois = <<>>
    /\ IrqFrame(frames[2]) /\ frames[2].eois # <<>>

---------------------------------------------------------------------------
(* Properties of the keyboard decoder: left and right modifier keys *)

\* The left and right key of each logical modifier
ModifierPairs ==
    {<<KMOD_LCTRL, KMOD_RCTRL>>, <<KMOD_LSHIFT, KMOD_RSHIFT>>,
     <<KMOD_LALT, KMOD_RALT>>}
NonModifierKeycodes == (0 .. (RELEASE - 1)) \ ModifierKeycodes

\* C11: for every press of a non-modifier key the decoded event is the same
\* whether the left key, the right key or both keys of a logical modifier
\* (Ctrl, Shift, Alt) are held, the rest of the modifier state being equal:
\* for every such key in every modifier state (examined where nothing has
\* been typed yet: the modifier keys alone reach every modifier state), and
\* for the press that was decoded last.
C11_LeftRightAlike ==
    \A pr \in ModifierPairs :
        LET base  == modifiers \ (pr[1] \cup pr[2])
            left  == base \cup pr[1]
            right == base \cup pr[2]
            both  == base \cup pr[1] \cup pr[2]
            old   == mod_before \ (pr[1] \cup pr[2])
        IN  /\ input_buf.count = 0 =>
                  \A k \in NonModifierKeycodes :
                      /\ process_packet(left, k).input
                            = process_packet(right, k).input
                      /\ process_packet(left, k).input
                            = process_packet(both, k).input
            /\ (/\ last_packet \in NonModifierKeycodes
                /\ mod_before \cap (pr[1] \cup pr[2]) # {}) =>
                  /\ input = process_packet(old \cup pr[1], last_packet).input
                  /\ input = process_packet(old \cup pr[2], last_packet).input

\* 'a' pressed with only the right Shift key held decodes to 'A', as it
\* does with the left one.
C11_Witness ==
    /\ last_packet = 30
    /\ mod_before = KMOD_RSHIFT
    /\ input = [type |-> KTYP_CHAR, value |-> 65]
    /\ input = process_packet(KMOD_LSHIFT, 30).input

---------------------------------------------------------------------------
(* Properties of the screen *)

\* Byte offset of the cell at column x of row y, and the cells of the screen
CellAt(x, y) == (y * NUM_COLS + x) * 2
OnScreen(x, y) == x \in 0 .. (NUM_COLS - 1) /\ y \in 0 .. (NUM_ROWS - 1)

\* C12, the example: "ab\bc" written to an empty terminal leaves the logical
\* column at 2 and 'a', 'c' in the first two cells.
AbBsCExample ==
    (written.src = AbBsC /\ written.fresh) =>
        /\ cursor.logical_x = 2
        /\ video_mem[CellAt(0, 0)] = 97
        /\ video_mem[CellAt(1 % NUM_COLS, 1 \div NUM_COLS)] = 99

\* C12 as stated: "ab\bc" written to an empty terminal leaves the logical
\* column at 2 and 'a', 'c' in columns 0-1; a backspace with logical_x > 0
\* decrements the logical and the screen column, wrapping up one row when
\* the screen column becomes negative, and blanks the cell under the new
\* cursor, every other cell being kept; a backspace with logical_x = 0
\* changes nothing.
C12_BackspaceAsStated ==
    /\ []AbBsCExample
    /\ [][written'.src = <<CH_BS>> =>
            IF cursor.logical_x > 0
            THEN /\ cursor'.logical_x = cursor.logical_x - 1
                 /\ cursor'.screen_x = (cursor.screen_x - 1) % NUM_COLS
                 /\ cursor'.screen_y =
                       IF cursor.screen_x = 0 THEN cursor.screen_y - 1
                       ELSE cursor.screen_y
                 /\ OnScreen(cursor'.screen_x, cursor'.screen_y)
                 /\ video_mem'[CellAt(cursor'.screen_x, cursor'.screen_y)]
                       = CH_SPACE
                 /\ \A k \in DOMAIN video_mem :
                       (k \div 2) * 2
                           # CellAt(cursor'.screen_x, cursor'.screen_y)
                         => video_mem'[k] = video_mem[k]
                 /\ stray' = stray
            ELSE UNCHANGED <<video_mem, cursor, stray>>]_vars

\* A backspace took the cursor above the first row: the logical line began
\* on a row that has scrolled away, and the blank went to memory in front
\* of the video memory.
C12_Witness ==
    /\ written.src = <<CH_BS>>
    /\ cursor.screen_y = -1
    /\ cursor.logical_x > 0
    /\ stray

\* The bytes of row y of a video memory
Row(vm, y) == [k \in 0 .. (NUM_COLS * 2 - 1) |-> vm[y * NUM_COLS * 2 + k]]
\* The row terminal_scroll_down leaves at the bottom: every byte 0
ZeroRow == [k \in 0 .. (NUM_COLS * 2 - 1) |-> 0]

\* vm scrolled by one row gives to
ScrolledFrom(vm, to) ==
    /\ \A r \in 0 .. (NUM_ROWS - 2) : Row(to, r) = Row(vm, r + 1)
    /\ Row(to, NUM_ROWS - 1) = ZeroRow

\* A write of the single character c that scrolls: a newline on the last
\* row, or a plain character in the last cell of the last row
ScrollingWrite(c) ==
    /\ cursor.screen_y = NUM_ROWS - 1
    /\ \/ c \in {CH_LF, CH_CR}
       \/ c \notin {CH_LF, CH_CR, CH_BS} /\ cursor.screen_x = NUM_COLS - 1

\* C13: NUM_ROWS * NUM_COLS + 1 plain characters written to a cleared
\* terminal leave in the first row what was written as the second row, and
\* the cursor on the last row; every scroll moves each row r+1 to row r
\* unchanged and blanks the bottom row, and the cursor row is the same after
\* the write that scrolled as before it (the scroll leaves it alone, the
\* caller takes back its own increment).
C13_Scroll ==
    /\ []((written.src = PlainRun /\ written.fresh) =>
            /\ \A x \in 0 .. (NUM_COLS - 1) :
                  /\ video_mem[CellAt(x, 0)] = PlainRun[NUM_COLS + x + 1]
                  /\ video_mem[CellAt(x, 0) + 1] = ATTRIB
            /\ cursor.screen_y = NUM_ROWS - 1)
    /\ []ScrolledFrom(video_mem, terminal_scroll_down(video_mem))
    /\ [][\A c \in WriteChars :
             (written'.src = <<c>> /\ ScrollingWrite(c)) =>
                 /\ ScrolledFrom(
                       IF c \in {CH_LF, CH_CR} THEN video_mem
                       ELSE terminal_write_char(Term, c).video_mem,
                       video_mem')
                 /\ cursor'.screen_y = cursor.screen_y]_vars

\* The run of plain characters was written to a cleared terminal: the
\* screen scrolled once and the last character stands alone on the last row.
C13_Witness ==
    /\ written.src = PlainRun /\ written.fresh
    /\ Row(video_mem, 0) # Row(terminal_clear(Term).video_mem, 0)
    /\ video_mem[CellAt(0, NUM_ROWS - 1)] = PlainRun[Len(PlainRun)]
    /\ cursor = [logical_x |-> Len(PlainRun), screen_x |-> 1 % NUM_COLS,
                 screen_y |-> NUM_ROWS - 1]

---------------------------------------------------------------------------
(* Properties of the blocking read *)

Min(a, b) == IF a < b THEN a ELSE b
HasNewline(b) == \E k \in DOMAIN b : b[k] = CH_LF
\* The bytes b let a read of n bytes go on
Readable(b, n) == Len(b) >= n \/ HasNewline(b)

ReadAt(st) == rd.todo # <<>> /\ rd.todo[1] = st
\* The read has left wait_until_readable
PastWait ==
    rd.done \/ ReadAt("copy") \/ ReadAt("memmove") \/ ReadAt("count")
            \/ ReadAt("return")

\* C14: a read of n bytes that found the buffer empty leaves its wait, and
\* so returns, only when the buffer holds min(n, TERMINAL_BUF_SIZE) bytes or
\* a newline; as long as the buffer holds neither, the statements after a
\* wake-up lead through the check and the scan back to sti and hlt, and
\* none of them changes the buffer; and when the wait of a read of more than
\* two bytes ends with two bytes and a newline buffered, the read returns 3,
\* delivers these three bytes and leaves the buffer empty.
C14_BlockingRead ==
    /\ []((PastWait /\ rd.start = 0) =>
            Readable(rd.seen, Min(rd.req, TERMINAL_BUF_SIZE)))
    /\ []((rd.start = 0 /\ (ReadAt("sti") \/ ReadAt("hlt"))) =>
            ~Readable(Buffered(input_buf), Min(rd.req, TERMINAL_BUF_SIZE)))
    /\ [][(rd' # rd /\ rd.todo # <<>> /\ rd.start = 0
             /\ ~Readable(Buffered(input_buf), rd.nbytes)) =>
              /\ ReadAt("cli") => rd'.todo[1] = "while" /\ ~int_flag'
              /\ ReadAt("while") => rd'.todo[1] = "scan"
              /\ ReadAt("scan") => rd'.todo[1] = "sti"
              /\ ReadAt("sti") => rd'.todo[1] = "hlt"
              /\ ReadAt("hlt") => rd'.todo[1] = "cli" /\ hlt_wait'
              /\ (ReadAt("cli") \/ ReadAt("while") \/ ReadAt("scan")
                     \/ ReadAt("sti") \/ ReadAt("hlt")) =>
                    UNCHANGED input_buf]_vars
    /\ []((rd.done /\ rd.start = 0 /\ rd.req >= 3 /\ Len(rd.seen) = 3
             /\ rd.seen[3] = CH_LF /\ ~HasNewline(SubSeq(rd.seen, 1, 2))) =>
            /\ rd.result = 3
            /\ rd.dest = rd.seen
            /\ rd.left = <<>>)

\* A read of more than the buffer's size found the buffer empty, halted,
\* and returned the two characters and the newline typed meanwhile.
C14_Witness ==
    /\ rd.done /\ rd.start = 0 /\ rd.req = TERMINAL_BUF_SIZE + 1
    /\ rd.seen = <<97, 97, CH_LF>>
    /\ rd.result = 3
    /\ input_buf.count = 0

\* Position of the first newline among the bytes b (0: none)
NewlineAt(b) ==
    IF HasNewline(b)
    THEN CHOOSE k \in DOMAIN b : b[k] = CH_LF /\ \A j \in 1 .. (k - 1) : b[j] # CH_LF
    ELSE 0

\* C15 as stated: whenever the buffer holds a newline when the read
\* evaluates its condition for the last time, and the first newline lies
\* within the first min(max_bytes, TERMINAL_BUF_SIZE) bytes, the read
\* returns exactly the bytes up to and including that newline and no byte
\* after it, however many bytes are buffered.
C15_UpToNewlineAsStated ==
    (/\ rd.done
     /\ NewlineAt(rd.seen) > 0
     /\ NewlineAt(rd.seen) <= Min(rd.req, TERMINAL_BUF_SIZE)) =>
        /\ rd.result = NewlineAt(rd.seen)
        /\ rd.dest = SubSeq(rd.seen, 1, NewlineAt(rd.seen))

\* Enter and 'a' were typed before read(2) was called: the read returned
\* both bytes, the one after the newline included.
C15_Witness ==
    /\ rd.done /\ rd.req = 2
    /\ rd.seen = <<CH_LF, 97>>
    /\ rd.result = 2
    /\ rd.dest = <<CH_LF, 97>>

\* C16 as stated: when a read delivers k bytes from a buffer that holds c
\* bytes, it returns k, the bytes delivered are the first k buffered bytes in
\* order, and afterwards the buffer holds exactly c - k bytes, the former
\* bytes k .. c-1 in the same order at its front.
C16_DeliverAndShiftAsStated ==
    rd.done =>
        /\ rd.result = Len(rd.dest)
        /\ rd.dest = SubSeq(rd.seen, 1, rd.result)
        /\ Len(rd.left) = Len(rd.seen) - rd.result
        /\ rd.left = SubSeq(rd.seen, rd.result + 1, Len(rd.seen))

\* Enter, 'a', Enter were buffered when a read of more bytes was called:
\* it delivered the first newline, and the buffer then holds 'a', 'a'
\* instead of 'a', newline.
C16_Witness ==
    /\ rd.done
    /\ rd.seen = <<CH_LF, 97, CH_LF>>
    /\ rd.result = 1 /\ rd.dest = <<CH_LF>>
    /\ rd.left = <<97, 97>>

---------------------------------------------------------------------------
(* Properties of the input buffer under keyboard input *)

\* The buffer changes in this step and terminal_read is not at one of its
\* two statements that write it: the keyboard's callback ran, and input' is
\* what it decoded.
KeyboardStored ==
    /\ input_buf' # input_buf
    /\ ~ReadAt("memmove") /\ ~ReadAt("count")

\* C17: characters pushed by the keyboard are stored in arrival order behind
\* the bytes already buffered, which stay as they are; once the buffer holds
\* TERMINAL_BUF_SIZE bytes every further character is dropped, the count
\* and the buffered bytes staying the same (only a backspace, which is not
\* stored, takes the last byte away).
C17_FullBufferDrops ==
    /\ []((input_buf.count >= 0) /\ (input_buf.count <= TERMINAL_BUF_SIZE))
    /\ [][KeyboardStored =>
             /\ input'.type = KTYP_CHAR
             /\ input_buf'.buf \in [0 .. (TERMINAL_BUF_SIZE - 1) -> 0 .. 255]
             /\ IF input'.value = CH_BS
                THEN /\ input_buf'.count = input_buf.count - 1
                     /\ input_buf'.buf = input_buf.buf
                ELSE /\ input_buf.count < TERMINAL_BUF_SIZE
                     /\ Buffered(input_buf')
                          = Append(Buffered(input_buf), input'.value)
                     /\ \A k \in 0 .. (TERMINAL_BUF_SIZE - 1) :
                           k # input_buf.count =>
                              input_buf'.buf[k] = input_buf.buf[k]]_vars

\* 'a' was pressed when the buffer was full: it is not in the buffer, whose
\* last byte is still the newline typed before.
C17_Witness ==
    /\ last_packet = 30 /\ input = [type |-> KTYP_CHAR, value |-> 97]
    /\ input_buf.count = TERMINAL_BUF_SIZE
    /\ input_buf.buf[0] = 97
    /\ input_buf.buf[TERMINAL_BUF_SIZE - 1] = CH_LF
    /\ rd.todo = <<>> /\ ~rd.done

---------------------------------------------------------------------------
(* Properties of the read's critical sections *)

\* The statements of the read that inspect or modify the input buffer: the
\* loop's condition, the newline scan, the copy, the shift, the count update
BufferStmts == {"while", "scan", "copy", "memmove", "count"}

\* C18: whenever the read is about to run a statement that inspects or
\* modifies the input buffer, interrupts are disabled; while the read runs,
\* the interrupt flag is raised by its sti only, whose successor is the hlt;
\* and the keyboard's callback changes the buffer or the decoder's state
\* during a read only after that hlt and before the cli that follows it,
\* never between a check and the update that relies on it.
C18_BufferAccessWithInterruptsOff ==
    /\ [](\A st \in BufferStmts : ReadAt(st) => ~int_flag)
    /\ [][(rd.todo # <<>> /\ rd'.todo # <<>> /\ ~int_flag /\ int_flag') =>
             ReadAt("sti") /\ rd'.todo[1] = "hlt"]_vars
    /\ [][(rd.todo # <<>> /\ rd' = rd
             /\ <<input_buf, kbdVars>>' # <<input_buf, kbdVars>>) =>
             ReadAt("cli")]_vars

\* The read re-checks a buffer that the keyboard filled while the processor
\* was halted, with interrupts disabled again.
C18_Witness ==
    /\ ReadAt("while")
    /\ rd.start = 0 /\ input_buf.count > 0
    /\ ~int_flag /\ ~hlt_wait

---------------------------------------------------------------------------
(* Progress of the blocking read *)

ReadActive == rd.todo # <<>>
\* The buffer holds a newline or the bytes the active read asked for
ReadableNow ==
    Readable(Buffered(input_buf), Min(rd.req, TERMINAL_BUF_SIZE))

\* C19 as stated: if keyboard input makes the buffer contain a newline or
\* the requested number of bytes while a read is blocked, the read
\* eventually returns.
C19_ReturnsAsStated == (ReadActive /\ ReadableNow) ~> rd.done

\* C19 as amended: no interrupt is taken between the read's decision to
\* wait and its hlt, so the processor never halts on a buffer that holds a
\* newline or the requested bytes; and a read does not stay blocked for
\* ever while the buffer holds them for ever: if from some moment on the
\* buffer keeps holding a newline or the requested number of bytes (no
\* backspace takes them away before the read has checked again), the read
\* returns.
C19_NoLostWakeup ==
    /\ []((ReadActive /\ hlt_wait) => ~ReadableNow)
    /\ []((ReadAt("hlt") \/ ReadAt("sti")) => ~ReadableNow)
    /\ []<>(~ReadActive \/ ~ReadableNow)

\* A read of two bytes that found the buffer empty and halted has returned
\* the two characters typed since.
C19_Witness ==
    /\ rd.done /\ rd.start = 0 /\ rd.req = 2
    /\ rd.seen = <<97, 97>>
    /\ rd.result = 2

---------------------------------------------------------------------------
(* Properties of the cursor *)

\* C20: after any sequence of writes, clears and keyboard events the screen
\* column lies in 0 .. NUM_COLS - 1 and the logical column is not negative;
\* the logical column is 0 right after a write that ends with a newline or
\* a carriage return, right after a clear (the kernel's or Ctrl+L), and
\* right after the echo of a newline typed on the keyboard.
C20_CursorInvariant ==
    /\ [](/\ cursor.screen_x \in 0 .. (NUM_COLS - 1)
          /\ cursor.logical_x >= 0)
    /\ []((written.src # <<>>
             /\ written.src[Len(written.src)] \in {CH_LF, CH_CR}) =>
            cursor.logical_x = 0)
    /\ [](written = JustCleared => cursor.logical_x = 0)
    /\ [][(/\ input_buf' # input_buf
            /\ input'.type = KTYP_CHAR
            /\ input'.value \in {CH_LF, CH_CR}) =>
             cursor'.logical_x = 0]_vars

\* Ctrl+L cleared a screen whose cursor had wrapped onto the second row.
C20_Witness ==
    /\ written = JustCleared
    /\ last_packet = KC_L /\ input.type = KTYP_CTRL
    /\ cursor = [logical_x |-> 0, screen_x |-> 0, screen_y |-> 0]
    /\ input_buf.count > NUM_COLS
    /\ input_buf.buf[input_buf.count - 1] = 108

---------------------------------------------------------------------------
(* Properties of the input stream *)

\* C21: with no backspace typed, whenever no read is under way the bytes the
\* reads have returned so far, followed by the bytes still in the input
\* buffer, are the accepted characters in the order they arrived.
C21_StreamPreservedAsStated ==
    (stream.on /\ rd.todo = <<>>) =>
        stream.returned \o Buffered(input_buf) = stream.accepted

\* A read has returned some of the accepted characters and others are still
\* in the buffer.
C21_Witness ==
    /\ stream.on /\ rd.todo = <<>>
    /\ stream.returned # <<>>
    /\ input_buf.count > 0
    /\ Len(stream.accepted) = Len(stream.returned) + input_buf.count

---------------------------------------------------------------------------
(* Properties of the keyboard decoder, continued *)

Keycode(packet) == packet % RELEASE
Pressed(packet) == packet < RELEASE
HeldKeys == {KC_LCTRL, KC_RCTRL, KC_LSHIFT, KC_RSHIFT, KC_LALT, KC_RALT}
Decoded == last_packet # -1

\* C22: each packet flips the Caps-Lock bit when it is a Caps-Lock press and
\* leaves it alone otherwise (a Caps-Lock release included); the bit of each
\* Ctrl, Shift and Alt key is set by that key's press, cleared by its
\* release and left alone by every other packet.  The modifiers start all
\* clear, so after any sequence of packets the Caps-Lock bit has flipped
\* once per Caps-Lock press and each other bit tells whether the key's most
\* recent packet was a press.
C22_ModifierBits ==
    Decoded =>
        /\ (KMOD_CAPS \subseteq modifiers) =
              IF last_packet = KC_CAPS_LOCK
              THEN ~(KMOD_CAPS \subseteq mod_before)
              ELSE KMOD_CAPS \subseteq mod_before
        /\ \A key \in HeldKeys :
              (keycode_to_modifier(key) \subseteq modifiers) =
                 IF Keycode(last_packet) = key
                 THEN Pressed(last_packet)
                 ELSE keycode_to_modifier(key) \subseteq mod_before

\* A Caps-Lock press found Caps-Lock on, with Left-Ctrl held, and turned it
\* off.
C22_Witness ==
    /\ last_packet = KC_CAPS_LOCK
    /\ mod_before = KMOD_CAPS \cup KMOD_LCTRL
    /\ modifiers = KMOD_LCTRL

\* C23: a packet of a modifier key, pressed or released, yields no input
\* event; a release of any other key, and a press of a keycode at or beyond
\* NUM_KEYS, yields an event of type KTYP_NONE; and a packet of a key that is
\* not a modifier leaves the modifiers as they were.
C23_DecoderFrame ==
    Decoded =>
        /\ Keycode(last_packet) \in ModifierKeycodes =>
              input.type = KTYP_NONE
        /\ (/\ Keycode(last_packet) \notin ModifierKeycodes
            /\ (~Pressed(last_packet) \/ Keycode(last_packet) >= NUM_KEYS)) =>
              input.type = KTYP_NONE
        /\ Keycode(last_packet) \notin ModifierKeycodes =>
              modifiers = mod_before
        \* and so would any packet decoded next, whatever the modifiers
        \* (looked at once per modifier state, before anything is typed)
        /\ input_buf.count = 0 =>
              \A k \in 0 .. (RELEASE - 1), r \in {0, RELEASE} :
                 LET next == process_packet(modifiers, k + r)
                 IN  /\ k \in ModifierKeycodes => next.input.type = KTYP_NONE
                     /\ (k \in NonModifierKeycodes /\ (r = RELEASE \/ k >= NUM_KEYS))
                           => next.input.type = KTYP_NONE
                     /\ k \in NonModifierKeycodes => next.mods = modifiers

\* The A key is released while Left-Shift is held: nothing is decoded and
\* Left-Shift stays.
C23_Witness ==
    /\ last_packet = 30 + RELEASE
    /\ input.type = KTYP_NONE
    /\ mod_before = KMOD_LSHIFT
    /\ modifiers = KMOD_LSHIFT

CtrlCombinations == {KMOD_CTRL, KMOD_CAPS \cup KMOD_CTRL}
Unrecognized(m) ==
    \/ m \cap KMOD_ALT # {}
    \/ (m \cap KMOD_CTRL # {} /\ m \cap KMOD_SHIFT # {})
ClearEvent == [type |-> KTYP_CTRL, value |-> KCTL_CLEAR]
\* An event the terminal does nothing with: no event at all, or a control
\* event carrying KCTL_NONE.
EmptyEvent(ev) ==
    /\ ev.type = KTYP_NONE \/ (ev.type = KTYP_CTRL /\ ev.value = KCTL_NONE)
    /\ terminal_handle_input(Term, ev) = Term

---------------------------------------------------------------------------
(* Properties of the terminal's control and backspace handling *)

Blank(mem) == \A k \in DOMAIN mem : mem[k] = (IF k % 2 = 0 THEN CH_SPACE ELSE ATTRIB)
Home == [logical_x |-> 0, screen_x |-> 0, screen_y |-> 0]
ControlEvent(ctrl) == [type |-> KTYP_CTRL, value |-> ctrl]

\* C25: the clear-screen control blanks every cell of the grid, puts the
\* cursor's logical column, screen column and row at 0 and leaves the input
\* buffer, contents and count, as it was; the controls KCTL_TERM2 and
\* KCTL_TERM3 change nothing at all.  Stated of every clear that happens
\* (Ctrl+L and the kernel's) and of each control handed to the terminal in
\* the state at hand.
C25_ClearAndReservedControls ==
    [][/\ written' = JustCleared =>
             /\ Blank(video_mem')
             /\ cursor' = Home
             /\ input_buf' = input_buf
       /\ LET c == terminal_handle_input(Term, ControlEvent(KCTL_CLEAR))
          IN  /\ Blank(c.video_mem)
              /\ c.cursor = Home
              /\ c.input = input_buf
       /\ \A ctrl \in {KCTL_TERM2, KCTL_TERM3} :
             terminal_handle_input(Term, ControlEvent(ctrl)) = Term]_vars

\* Ctrl+L with two characters typed and the cursor away from home: the
\* screen is blank, the cursor home and the two characters still buffered.
C25_Witness ==
    /\ last_packet = KC_L
    /\ input = ControlEvent(KCTL_CLEAR)
    /\ written = JustCleared
    /\ Blank(video_mem)
    /\ cursor = Home
    /\ input_buf.count = 2

KeyboardBackspace == [type |-> KTYP_CHAR, value |-> CH_BS]
\* The step is the keyboard handler's, for the Backspace key.
BackspaceKeyStep ==
    /\ last_packet' = 14
    /\ input' = KeyboardBackspace
    /\ written' = NoWrite

\* C26: a backspace from the keyboard is honoured only when the input buffer
\* holds something: then the count goes down by exactly one, the buffered
\* bytes below it stay, and the backspace is echoed (the cursor steps back
\* over a blanked cell when the logical column is above 0); with an empty
\* buffer it changes neither the buffer nor the screen nor the cursor.  No
\* backspace from the keyboard removes an 'x' a program wrote while the
\* buffer was empty.
C26_KeyboardBackspace ==
    [][BackspaceKeyStep =>
          /\ input_buf.count > 0 =>
                /\ input_buf'.count = input_buf.count - 1
                /\ input_buf'.buf = input_buf.buf
                /\ Term' = terminal_putc([Term EXCEPT !.input = input_buf'], CH_BS)
                /\ cursor.logical_x > 0 =>
                      /\ cursor'.logical_x = cursor.logical_x - 1
                      /\ OnScreen(cursor'.screen_x, cursor'.screen_y) =>
                            video_mem'[CellAt(cursor'.screen_x, cursor'.screen_y)] = CH_SPACE
          /\ input_buf.count = 0 =>
                /\ input_buf' = input_buf
                /\ video_mem' = video_mem
                /\ cursor' = cursor
          /\ \A k \in DOMAIN video_mem :
                video_mem[k] = CH_X => video_mem'[k] = CH_X]_vars

\* Backspace with nothing buffered, right after a program wrote 'x': the
\* 'x' stays under a cursor that has not moved.
C26_Witness ==
    /\ last_packet = 14
    /\ input = KeyboardBackspace
    /\ written = NoWrite
    /\ input_buf.count = 0
    /\ cursor = [logical_x |-> 1, screen_x |-> 1, screen_y |-> 0]
    /\ video_mem[CellAt(0, 0)] = CH_X

---------------------------------------------------------------------------
(* Properties of the dispatcher, continued *)

\* The frame's path has not yet handed the snapshot to the delivery of
\* signals.
OnPath(f) == ~InSeq("signal_handle_all", f.log)

\* C27: on the exception, IRQ and unknown-vector paths the register snapshot
\* stays as the trap entry pushed it; on the syscall path the vector number
\* and cs stay, and eax differs from its value at entry only once
\* syscall_handle has returned, when it holds the system call's result.
C27_SnapshotFrame ==
    \A f \in FrameSet :
        OnPath(f) =>
            /\ ~SysFrame(f) => f.regs = f.entry
            /\ SysFrame(f) =>
                  /\ f.regs.int_num = f.entry.int_num
                  /\ f.regs.cs = f.entry.cs
                  /\ IF InSeq("syscall_handle", f.log)
                     THEN f.regs.eax \in SyscallResults
                     ELSE f.regs.eax = f.entry.eax

\* A system call from user code that asked with eax = 1 holds the result -1
\* in eax when its path is over and the signals are about to be looked at.
C27_Witness ==
    /\ Depth = 1
    /\ SysFrame(Top)
    /\ Top.entry = [int_num |-> INT_SYSCALL, cs |-> USER_CS, eax |-> 1]
    /\ Top.regs = [int_num |-> INT_SYSCALL, cs |-> USER_CS, eax |-> -1]
    /\ Stmt = "signal_check"

---------------------------------------------------------------------------
(* Properties of the IRQ registry, continued *)

\* C28: every line holds one callback or none; a register call on a line in
\* 0 .. 15 puts its callback in the line's slot, over whatever was there, and
\* enables the line; an unregister call empties the slot and disables the
\* line; either call leaves the slot and the enable state of every other
\* line as they were.  So after any sequence of calls a line holds the
\* callback of the latest register not followed by an unregister.
C28_RegistryCalls ==
    [][reg_ops' = reg_ops + 1 =>
          /\ DOMAIN irq_handlers' = Lines
          /\ \A l \in Lines : irq_handlers'[l] \in Callbacks \cup {NULL}
          /\ last_op'.line \in Lines
          /\ last_op'.op = "register" =>
                /\ irq_handlers'[last_op'.line] = last_op'.cb
                /\ last_op'.line \in irq_enabled'
          /\ last_op'.op = "unregister" =>
                /\ irq_handlers'[last_op'.line] = NULL
                /\ last_op'.line \notin irq_enabled'
          /\ \A o \in Lines \ {last_op'.line} :
                /\ irq_handlers'[o] = irq_handlers[o]
                /\ (o \in irq_enabled') = (o \in irq_enabled)]_vars

\* The keyboard's line is given another callback while the last line holds
\* the keyboard's: the new one is in the slot, the last line is as before.
C28_Witness ==
    /\ last_op = [op |-> "register", line |-> IRQ_KEYBOARD, cb |-> CB_STI]
    /\ irq_handlers[IRQ_KEYBOARD] = CB_STI
    /\ irq_handlers[NUM_IRQ - 1] = CB_KEYBOARD
    /\ irq_handlers[0] = NULL
    /\ irq_enabled = {IRQ_KEYBOARD, NUM_IRQ - 1}

---------------------------------------------------------------------------
(* Properties of idt_init, continued *)

Populated(v) == idt[v].present = 1 /\ idt[v].offset # NULL

\* C29: the table is the active descriptor table only once all 256 entries
\* have been written: whenever the IDTR points at it, every vector's gate is
\* present and has its entry point.
C29_ActiveOnlyWhenPopulatedAsStated ==
    idtr => \A v \in Vectors : Populated(v)

\* lidt has just run: the table is active and none of its 256 entries has
\* been written yet.
C29_Witness ==
    /\ idtr
    /\ init_todo # <<>>
    /\ init_todo[1] = InitStmt("exc_setup")
    /\ \A v \in Vectors : idt[v] = EmptyGate

---------------------------------------------------------------------------
(* Properties of the screen, continued *)

\* C30: after any sequence of terminal_putc calls the screen row is one of
\* the rows 0 .. NUM_ROWS - 1 and no byte has been written outside the
\* NUM_ROWS x NUM_COLS cells of the video memory.
C30_RowAndWritesInGridAsStated ==
    /\ cursor.screen_y \in 0 .. (NUM_ROWS - 1)
    /\ ~stray

\* A plain character was written while the cursor was above the first row,
\* where backspaces over a line that had scrolled had taken it: the
\* character went outside the video memory and the row is still -1.
C30_Witness ==
    /\ written.src = <<97>>
    /\ cursor.screen_y = -1
    /\ cursor.screen_x = 1
    /\ stray

---------------------------------------------------------------------------
(* Properties of the input buffer's bounds *)

\* The indices of input_buf->buf that the statement the read is about to
\* execute reads or writes.
NextAccess ==
    IF rd.todo = <<>> THEN {}
    ELSE CASE rd.todo[1] = "scan"    -> 0 .. (input_buf.count - 1)
           [] rd.todo[1] = "copy"    -> 0 .. (rd.nbytes - 1)
           [] rd.todo[1] = "memmove" -> 0 .. (rd.i + rd.i - 1)
           [] OTHER                  -> {}

\* C31: whatever the keyboard and the reads do, the count of the input
\* buffer is between 0 and TERMINAL_BUF_SIZE and every access to the
\* buffer is at an index from 0 to TERMINAL_BUF_SIZE - 1.
C31_BufferBoundsAsStated ==
    /\ input_buf.count \in 0 .. TERMINAL_BUF_SIZE
    /\ NextAccess \subseteq 0 .. (TERMINAL_BUF_SIZE - 1)

\* A read took the whole of a full buffer: its memmove has read the
\* TERMINAL_BUF_SIZE bytes behind the buffer and put them into it.
C31_Witness ==
    /\ rd.todo # <<>> /\ rd.todo[1] = "count"
    /\ rd.i = TERMINAL_BUF_SIZE
    /\ input_buf.count = TERMINAL_BUF_SIZE
    /\ \A k \in 0 .. (TERMINAL_BUF_SIZE - 1) : input_buf.buf[k] = 255

\* The read is waiting for input, or about to.
Waiting ==
    \/ hlt_wait /\ rd.todo # <<>>
    \/ rd.todo # <<>> /\ rd.todo[1] \in {"sti", "hlt"}

\* C32: a read never waits while the input buffer is full, whatever number
\* of bytes was asked for, and returns at most TERMINAL_BUF_SIZE bytes; a
\* read of 0 bytes or fewer never scans or waits and returns 0 with nothing
\* delivered and the buffer as it was.
C32_FullBufferNeverBlocks ==
    /\ Waiting => input_buf.count < TERMINAL_BUF_SIZE
    /\ rd.done =>
          /\ rd.result <= TERMINAL_BUF_SIZE
          /\ rd.result = Len(rd.dest)
    /\ (rd.todo # <<>> /\ rd.req <= 0) =>
          /\ ~Waiting
          /\ rd.todo[1] \notin {"scan", "cli"}
          /\ input_buf.count = rd.start
    /\ (rd.done /\ rd.req <= 0) =>
          /\ rd.result = 0
          /\ rd.dest = <<>>
          /\ rd.left = rd.seen
          /\ input_buf.count = rd.start

\* A read of more bytes than the buffer holds found the buffer empty and
\* returned the whole of a full buffer, in which there is no newline.
C32_Witness ==
    /\ rd.done
    /\ rd.req = TERMINAL_BUF_SIZE + 1
    /\ rd.start = 0
    /\ rd.result = TERMINAL_BUF_SIZE
    /\ rd.dest = [k \in 1 .. TERMINAL_BUF_SIZE |-> 97]

\* C33: a backspace from the keyboard that shrinks the input buffer removes
\* a character of the line being typed, never a newline already accepted
\* (nor, then, a byte before it), and it steps the cursor back over a cell
\* of the screen.
C33_BackspaceWithinLineAsStated ==
    [][(BackspaceKeyStep /\ input_buf'.count < input_buf.count) =>
          /\ input_buf.buf[input_buf.count - 1] # CH_LF
          /\ cursor'.logical_x = cursor.logical_x - 1]_vars

\* 'a', Enter, Backspace: the newline has left the buffer, which holds 'a'
\* alone again, while the screen still shows the finished line and the
\* cursor stands at the start of the next.
C33_Witness ==
    /\ last_packet = 14
    /\ input = KeyboardBackspace
    /\ input_buf.count = 1
    /\ input_buf.buf[0] = 97
    /\ input_buf.buf[1] = CH_LF
    /\ video_mem[CellAt(0, 0)] = 97
    /\ cursor = [logical_x |-> 0, screen_x |-> 0, screen_y |-> 1]

=============================================================================
